---- MODULE Spec2Model ----
(***************************************************************************)
(* Model of the MACD backtest core of BinanceStrateger:                    *)
(*   src/src/macd_strategy/backtest/backtest_engine.py   (the bar loop)    *)
(*   src/src/macd_strategy/core/leverage_calculator.py   (margin/bracket)  *)
(*   src/src/macd_strategy/indicators/technical_indicators.py (signals)    *)
(*   src/src/macd_strategy/core/config_template.py       (configuration)   *)
(*                                                                         *)
(* Python floats are modelled as exact rationals [n, d] in lowest terms    *)
(* with d > 0, so that money flows can be compared exactly.                *)
(***************************************************************************)
EXTENDS Integers, Sequences, FiniteSets, TLC

\* ------------------------------------------------------------------------
\* Bounds of the model (not program constants)
\* ------------------------------------------------------------------------

\* largest number of rows of data_1h (the simulated period) in a run
MaxBars == 4

\* largest number of trades in a trade list handed to the statistics alone
MaxTrades == 3

\* number of latest 1h histogram values that vary in the frames handed to the
\* analyzer alone; the rows before them carry 0
AnalyzerTailLen == 6

\* ------------------------------------------------------------------------
\* Exact rational arithmetic standing for the float arithmetic of the code
\* ------------------------------------------------------------------------

Abs(x) == IF x < 0 THEN -x ELSE x

Gcd[a \in Nat, b \in Nat] == IF b = 0 THEN a ELSE Gcd[b, a % b]

Norm(n, d) ==
    [n |-> (IF d < 0 THEN -n ELSE n) \div Gcd[Abs(n), Abs(d)],
     d |-> Abs(d) \div Gcd[Abs(n), Abs(d)]]

R(k) == [n |-> k, d |-> 1]

Frac(p, q) == Norm(p, q)

RZero == R(0)

RNeg(a) == [n |-> -a.n, d |-> a.d]

RAdd(a, b) ==
    Norm(a.n * (b.d \div Gcd[a.d, b.d]) + b.n * (a.d \div Gcd[a.d, b.d]),
         (a.d \div Gcd[a.d, b.d]) * b.d)

RSub(a, b) == RAdd(a, RNeg(b))

RMul(a, b) ==
    Norm((a.n \div Gcd[Abs(a.n), b.d]) * (b.n \div Gcd[Abs(b.n), a.d]),
         (a.d \div Gcd[Abs(b.n), a.d]) * (b.d \div Gcd[Abs(a.n), b.d]))

\* a / b; a / 0 is [n |-> 1, d |-> 0] or [n |-> -1, d |-> 0], the inf and
\* -inf a numpy float division by zero gives, and a / inf is 0
RDiv(a, b) == RMul(a, [n |-> IF b.n < 0 THEN -b.d ELSE b.d, d |-> Abs(b.n)])

\* a < b, comparing integer parts first so that large bracket limits do not
\* have to be multiplied by a denominator
RLt(a, b) ==
    IF a.d = 0 \/ b.d = 0
    THEN \/ a.d = 0 /\ a.n < 0 /\ ~(b.d = 0 /\ b.n < 0)
         \/ b.d = 0 /\ b.n > 0 /\ ~(a.d = 0 /\ a.n > 0)
    ELSE \/ a.n \div a.d < b.n \div b.d
         \/ /\ a.n \div a.d = b.n \div b.d
            /\ (a.n % a.d) * b.d < (b.n % b.d) * a.d

RLe(a, b) == ~RLt(b, a)

RGe(a, b) == ~RLt(a, b)

RGt(a, b) == RLt(b, a)

\* ------------------------------------------------------------------------
\* Configuration (core/config_template.py)
\* ------------------------------------------------------------------------

\* MIN_CONSECUTIVE_BARS = 4
MIN_CONSECUTIVE_BARS == 4

\* LEVERAGE = 50
LEVERAGE == 50

\* POSITION_SIZE = 0.05
POSITION_SIZE == Frac(5, 100)

\* STOP_LOSS_MULTIPLIER = 1.5
STOP_LOSS_MULTIPLIER == Frac(15, 10)

\* RISK_REWARD_RATIO = 1.2
RISK_REWARD_RATIO == Frac(12, 10)

\* MAINTENANCE_MARGIN_RATIO = 0.05
MAINTENANCE_MARGIN_RATIO == Frac(5, 100)

\* BacktestEngine.__init__(initial_capital=10000.0)
initial_capital == R(10000)

\* the hard-coded warm-up gate of the bar loop: fewer than 50 rows -> skip
WarmupRows == 50

\* SignalAnalyzer looks back over at most 20 rows: range(2, min(len, 20))
LookbackLimit == 20

Bracket(lo, hi, lev, mmr, amt) ==
    [notional_min |-> lo, notional_max |-> hi, max_leverage |-> lev,
     maintenance_margin_rate |-> mmr, maintenance_amount |-> amt]

BINANCE_LEVERAGE_BRACKETS ==
    << Bracket(0,         50000,      125, Frac(4, 1000),   0),
       Bracket(50000,     600000,     100, Frac(5, 1000),   50),
       Bracket(600000,    3000000,    75,  Frac(65, 10000), 950),
       Bracket(3000000,   12000000,   50,  Frac(1, 100),    11450),
       Bracket(12000000,  50000000,   25,  Frac(2, 100),    131450),
       Bracket(50000000,  65000000,   20,  Frac(25, 1000),  381450),
       Bracket(65000000,  150000000,  10,  Frac(5, 100),    2006450),
       Bracket(150000000, 320000000,  5,   Frac(10, 100),   9506450),
       Bracket(320000000, 400000000,  4,   Frac(125, 1000), 17506450),
       Bracket(400000000, 530000000,  3,   Frac(15, 100),   27506450),
       Bracket(530000000, 800000000,  2,   Frac(25, 100),   80506450),
       Bracket(800000000, 1200000000, 1,   Frac(50, 100),   280506450) >>

\* the settings of config_template.py as shipped
TemplateConfig ==
    [MIN_CONSECUTIVE_BARS      |-> MIN_CONSECUTIVE_BARS,
     LEVERAGE                  |-> LEVERAGE,
     POSITION_SIZE             |-> POSITION_SIZE,
     STOP_LOSS_MULTIPLIER      |-> STOP_LOSS_MULTIPLIER,
     RISK_REWARD_RATIO         |-> RISK_REWARD_RATIO,
     MAINTENANCE_MARGIN_RATIO  |-> MAINTENANCE_MARGIN_RATIO,
     BINANCE_LEVERAGE_BRACKETS |-> BINANCE_LEVERAGE_BRACKETS]

\* the config module the engine, the analyzer and the leverage calculator
\* import; never written
VARIABLE config

\* ------------------------------------------------------------------------
\* LeverageCalculator (core/leverage_calculator.py)
\* ------------------------------------------------------------------------

InBracket_UpperInclusive(b, notional_value) ==
    /\ RLe(R(b.notional_min), notional_value)
    /\ RLe(notional_value, R(b.notional_max))

InBracket(b, notional_value) ==
    /\ RLe(R(b.notional_min), notional_value)
    /\ RLt(notional_value, R(b.notional_max))

\* for bracket in BRACKETS: if min <= value < max: return bracket
\* ... return BRACKETS[-1]
RECURSIVE BracketFrom(_, _)
BracketFrom(k, notional_value) ==
    IF k > Len(config.BINANCE_LEVERAGE_BRACKETS)
    THEN config.BINANCE_LEVERAGE_BRACKETS[Len(config.BINANCE_LEVERAGE_BRACKETS)]
    ELSE IF InBracket(config.BINANCE_LEVERAGE_BRACKETS[k], notional_value)
         THEN config.BINANCE_LEVERAGE_BRACKETS[k]
         ELSE BracketFrom(k + 1, notional_value)

get_leverage_bracket(notional_value) == BracketFrom(1, notional_value)

calculate_max_leverage_OfFirstBracket(notional_value) ==
    config.BINANCE_LEVERAGE_BRACKETS[1].max_leverage

calculate_max_leverage(notional_value) ==
    get_leverage_bracket(notional_value).max_leverage

calculate_maintenance_margin_rate(notional_value) ==
    get_leverage_bracket(notional_value).maintenance_margin_rate

Min(a, b) == IF a <= b THEN a ELSE b

calculate_optimal_leverage_Uncapped(desired_leverage, notional_value) ==
    desired_leverage

calculate_optimal_leverage(desired_leverage, notional_value) ==
    Min(desired_leverage, calculate_max_leverage(notional_value))

\* the returned dictionary, given margin, leverage, notional and bracket
PositionDetails(margin, desired_leverage, lev, actual_notional, bracket, price) ==
    [margin_used             |-> margin,
     actual_leverage         |-> lev,
     desired_leverage        |-> desired_leverage,
     actual_notional         |-> actual_notional,
     position_quantity       |-> RDiv(actual_notional, price),
     maintenance_margin_rate |-> bracket.maintenance_margin_rate,
     maintenance_margin      |->
         RSub(RMul(actual_notional, bracket.maintenance_margin_rate),
              R(bracket.maintenance_amount)),
     leverage_bracket        |-> bracket,
     leverage_limited        |-> lev < desired_leverage]

\* actual_notional = margin_used * actual_leverage, and its bracket
DetailsAtLeverage(margin, desired_leverage, lev, price) ==
    PositionDetails(margin, desired_leverage, lev, RMul(margin, R(lev)),
                    get_leverage_bracket(RMul(margin, R(lev))), price)

\* initial_notional = margin_used * desired_leverage, capped leverage
DetailsAtMargin(margin, desired_leverage, price) ==
    DetailsAtLeverage(margin, desired_leverage,
        calculate_optimal_leverage(desired_leverage, RMul(margin, R(desired_leverage))),
        price)

\* margin_used = capital * position_size_ratio
calculate_position_details(cap, position_size_ratio, desired_leverage, price) ==
    DetailsAtMargin(RMul(cap, position_size_ratio), desired_leverage, price)

\* max(0, x)
NotNegative(x) == IF RGt(x, RZero) THEN x ELSE RZero

\* (wallet_balance - mma) / (position_size * (mmr - 1)) for a long,
\* (wallet_balance - mma) / (position_size * (mmr + 1)) for a short,
\* with wallet_balance = margin_used; never below 0
calculate_liquidation_price(price, position_details, is_long) ==
    NotNegative(
        RDiv(RSub(position_details.margin_used,
                  R(position_details.leverage_bracket.maintenance_amount)),
             RMul(position_details.position_quantity,
                  IF is_long
                  THEN RSub(position_details.maintenance_margin_rate, R(1))
                  ELSE RAdd(position_details.maintenance_margin_rate, R(1)))))

\* ------------------------------------------------------------------------
\* SignalAnalyzer (indicators/technical_indicators.py)
\* A data frame is a sequence of rows [macd_histogram, atr], oldest first;
\* frame.iloc[-k] is frame[Len(frame) - k + 1].
\* ------------------------------------------------------------------------

\* result['atr'] = None
NoAtr == [n |-> 0, d |-> 0]

iloc(frame, k) == frame[Len(frame) - k + 1]

\* for i in range(2, min(len(data_1h), 20)): count rows iloc[-i] of the given
\* sign (-1: < 0, +1: > 0) until the first row that is not of that sign
RECURSIVE CountRun_NotStrict(_, _, _)
CountRun_NotStrict(data_1h, k, sign) ==
    IF k >= Min(Len(data_1h), LookbackLimit) THEN 0
    ELSE IF sign * iloc(data_1h, k).macd_histogram >= 0
         THEN 1 + CountRun_NotStrict(data_1h, k + 1, sign)
         ELSE 0

RECURSIVE CountRun(_, _, _)
CountRun(data_1h, k, sign) ==
    IF k >= Min(Len(data_1h), LookbackLimit) THEN 0
    ELSE IF sign * iloc(data_1h, k).macd_histogram > 0
         THEN 1 + CountRun(data_1h, k + 1, sign)
         ELSE 0

NoSignalResult(err, why) ==
    [signal |-> FALSE, atr |-> NoAtr, error |-> err, stop_reason |-> why]

SignalResult(value) ==
    [signal |-> TRUE, atr |-> value, error |-> "none", stop_reason |-> "none"]

\* the run counted by the analyzer starts at iloc[-2], the row before the flip
RunStart == 2

analyze_long_signal_ShortGuard(data_4h, data_1h) ==
    IF Len(data_1h) < config.MIN_CONSECUTIVE_BARS
    THEN NoSignalResult("insufficient data", "none")
    ELSE IF ~(iloc(data_1h, 1).macd_histogram > 0 /\ iloc(data_1h, 2).macd_histogram <= 0)
    THEN NoSignalResult("none", "not first positive")
    ELSE IF CountRun(data_1h, RunStart, -1) < config.MIN_CONSECUTIVE_BARS
    THEN NoSignalResult("none", "not enough negative")
    ELSE IF Len(data_4h) = 0
    THEN NoSignalResult("exception", "none")
    ELSE IF ~(iloc(data_4h, 1).macd_histogram > 0)
    THEN NoSignalResult("none", "4h not positive")
    ELSE SignalResult(iloc(data_1h, 1).atr)

\* the run counted from iloc[-3], leaving out the row before the flip
analyze_long_signal_RunFromH2(data_4h, data_1h) ==
    IF Len(data_1h) < config.MIN_CONSECUTIVE_BARS + 2
    THEN NoSignalResult("insufficient data", "none")
    ELSE IF ~(iloc(data_1h, 1).macd_histogram > 0 /\ iloc(data_1h, 2).macd_histogram <= 0)
    THEN NoSignalResult("none", "not first positive")
    ELSE IF CountRun(data_1h, RunStart + 1, -1) < config.MIN_CONSECUTIVE_BARS
    THEN NoSignalResult("none", "not enough negative")
    ELSE IF Len(data_4h) = 0
    THEN NoSignalResult("exception", "none")
    ELSE IF ~(iloc(data_4h, 1).macd_histogram > 0)
    THEN NoSignalResult("none", "4h not positive")
    ELSE SignalResult(iloc(data_1h, 1).atr)

analyze_long_signal(data_4h, data_1h) ==
    IF Len(data_1h) < config.MIN_CONSECUTIVE_BARS + 2
    THEN NoSignalResult("insufficient data", "none")
    ELSE IF ~(iloc(data_1h, 1).macd_histogram > 0 /\ iloc(data_1h, 2).macd_histogram <= 0)
    THEN NoSignalResult("none", "not first positive")
    ELSE IF CountRun(data_1h, RunStart, -1) < config.MIN_CONSECUTIVE_BARS
    THEN NoSignalResult("none", "not enough negative")
    ELSE IF Len(data_4h) = 0
    THEN NoSignalResult("exception", "none")
    ELSE IF ~(iloc(data_4h, 1).macd_histogram > 0)
    THEN NoSignalResult("none", "4h not positive")
    ELSE SignalResult(iloc(data_1h, 1).atr)

\* the short analysis left as a copy of the long one
analyze_short_signal_NotMirrored(data_4h, data_1h) ==
    analyze_long_signal(data_4h, data_1h)

analyze_short_signal_SlowNotPositive(data_4h, data_1h) ==
    IF Len(data_1h) < config.MIN_CONSECUTIVE_BARS + 2
    THEN NoSignalResult("insufficient data", "none")
    ELSE IF ~(iloc(data_1h, 1).macd_histogram < 0 /\ iloc(data_1h, 2).macd_histogram >= 0)
    THEN NoSignalResult("none", "not first negative")
    ELSE IF CountRun(data_1h, RunStart, 1) < config.MIN_CONSECUTIVE_BARS
    THEN NoSignalResult("none", "not enough positive")
    ELSE IF Len(data_4h) = 0
    THEN NoSignalResult("exception", "none")
    ELSE IF ~(iloc(data_4h, 1).macd_histogram <= 0)
    THEN NoSignalResult("none", "4h not negative")
    ELSE SignalResult(iloc(data_1h, 1).atr)

analyze_short_signal(data_4h, data_1h) ==
    IF Len(data_1h) < config.MIN_CONSECUTIVE_BARS + 2
    THEN NoSignalResult("insufficient data", "none")
    ELSE IF ~(iloc(data_1h, 1).macd_histogram < 0 /\ iloc(data_1h, 2).macd_histogram >= 0)
    THEN NoSignalResult("none", "not first negative")
    ELSE IF CountRun(data_1h, RunStart, 1) < config.MIN_CONSECUTIVE_BARS
    THEN NoSignalResult("none", "not enough positive")
    ELSE IF Len(data_4h) = 0
    THEN NoSignalResult("exception", "none")
    ELSE IF ~(iloc(data_4h, 1).macd_histogram < 0)
    THEN NoSignalResult("none", "4h not negative")
    ELSE SignalResult(iloc(data_1h, 1).atr)

\* ------------------------------------------------------------------------
\* BacktestEngine.execute_backtest (backtest/backtest_engine.py)
\* ------------------------------------------------------------------------

VARIABLES
    pc,               \* "loop" while rows of data_1h remain, "done" after the return
    i,                \* number of rows of data_1h processed
    current_time,     \* index of the row processed last
    row,              \* the row processed last
    capital, position, position_size, entry_price, stop_loss, take_profit,
    entry_time, margin_used, notional_value, actual_leverage,
    trades, equity_curve, pending_signal,
    warm_1h, warm_4h, \* rows of the analysis frames older than data_1h
    tail_1h,          \* latest MACD histogram values of analysis_data_1h
    tail_4h,          \* latest MACD histogram value of analysis_data_4h
    last_scan,        \* what the analyzer was asked on the row processed last
    result            \* the returned statistics

\* ---- state outside execute_backtest ------------------------------------

VARIABLES
    days,             \* run_batch_backtest: the entry of backtest_days_list under way
    batch_results,    \* run_batch_backtest: results, what the finished runs returned
    strategy,         \* MacdTradingStrategy.run_strategy: its local variables
    orders,           \* the orders the exchange has received, oldest first
    otoco             \* TradeExecutor.place_otoco_order: its local variables

vars == << pc, i, current_time, row, capital, position, position_size,
           entry_price, stop_loss, take_profit, entry_time, margin_used,
           notional_value, actual_leverage, trades, equity_curve,
           pending_signal, warm_1h, warm_4h, tail_1h, tail_4h, last_scan,
           result, config, days,
                    batch_results, strategy, orders, otoco >>

\* run_strategy before it is called
NoStrategy ==
    [pc |-> "idle", auto_trade |-> FALSE, current_hour |-> 0,
     last_entry_check_hour |-> -1, signal_count |-> 0, retry_count |-> 0,
     data_acquired |-> FALSE, signal |-> "None",
     long_analysis |-> [bound |-> FALSE, signal |-> FALSE],
     short_analysis |-> [bound |-> FALSE, signal |-> FALSE]]

\* place_otoco_order before it is called
NoOtoco ==
    [pc |-> "idle", side |-> "None", timeout |-> 0, elapsed |-> 0,
     status |-> "None", position |-> "unknown"]

\* pending_signal = None
NoPending == [type |-> "None", atr |-> NoAtr, time |-> 0]

\* no row read yet
NoRow == [open |-> RZero, high |-> RZero, low |-> RZero, close |-> RZero]

NoScan == [called |-> FALSE, position |-> "None", pending |-> "None",
           long |-> FALSE, short |-> FALSE, last_1h |-> 0, last_4h |-> 0,
           rows_1h |-> 0, rows_4h |-> 0, atr_1h |-> NoAtr,
           long_result |-> NoSignalResult("none", "none"),
           short_result |-> NoSignalResult("none", "none")]

NoResult == [returned |-> FALSE, initial_capital |-> initial_capital,
             final_capital |-> RZero, total_pnl |-> RZero,
             total_return |-> RZero, total_trades |-> 0, win_rate |-> RZero,
             avg_win |-> RZero, avg_loss |-> RZero, best_trade |-> RZero,
             worst_trade |-> RZero]

\* ---- the input data ----------------------------------------------------

Candle(o, h, l, c) == [open |-> R(o), high |-> R(h), low |-> R(l), close |-> R(c)]

\* rows of data_1h: drift, crash, rally, whipsaw
Candles ==
    { Candle(1000, 1010, 990, 1008),
      Candle(1000, 1000, 960, 970),
      Candle(1000, 1040, 995, 1030),
      Candle(1000, 1018, 982, 1000) }

\* the MACD histogram of a new 1h row
HistValues == { -1, 1 }

\* the latest 1h histogram values of the warm-up rows, oldest first
WarmTails ==
    { << -1, -1, -1, -1, -1 >>,
      << 1, 1, 1, 1, 1 >>,
      << -1, -1, -1, -1, 0 >> }

\* the MACD histogram of a 4h row
Hist4hValues == { -1, 1 }

\* the ATR of a 1h row
AtrValues == { R(10) }

\* rows the analysis frames hold before the first row of data_1h: (1h, 4h)
WarmChoices == { << 60, 60 >>, << 48, 60 >>, << 60, 49 >> }

\* one 4h row every four 1h rows
HoursPer4h == 4

\* the hour before the first row of data_1h
FirstHour == 2

\* DataFrame.index of data_1h: the timestamp (in hours) of the k-th row
Index1h(k) == FirstHour + k

\* the ATR of the rows before the latest one
OlderAtr == R(15)

\* a frame of n rows whose last rows carry the given histogram values; the
\* last row is stamped last_index (its opening hour), the rows are step
\* hours apart
Frame(n, hist_tail, atr, last_index, step) ==
    [j \in 1..n |->
        [index          |-> last_index - (n - j) * step,
         macd_histogram |-> IF j > n - Len(hist_tail)
                            THEN hist_tail[j - (n - Len(hist_tail))]
                            ELSE 0,
         atr            |-> IF j = n THEN atr ELSE OlderAtr]]

\* analysis_data_1h[analysis_data_1h.index <= current_time]
data_1h_filtered(k, hist_tail, atr) ==
    Frame(warm_1h + k, hist_tail, atr, Index1h(k), 1)

\* a 4h row is stamped with every fourth hour
Starts4h(t) == t % HoursPer4h = 0

\* 4h rows stamped in the hours FirstHour + 1 .. t
Rows4hUpTo(t) == (t \div HoursPer4h) - (FirstHour \div HoursPer4h)

\* analysis_data_4h[analysis_data_4h.index <= current_time]
data_4h_filtered(t, h4) ==
    Frame(warm_4h + Rows4hUpTo(t), << h4 >>, NoAtr,
          HoursPer4h * (t \div HoursPer4h), HoursPer4h)

\* ---- the local variables of execute_backtest as one record -------------

Locals ==
    [capital |-> capital, position |-> position, position_size |-> position_size,
     entry_price |-> entry_price, stop_loss |-> stop_loss,
     take_profit |-> take_profit, entry_time |-> entry_time,
     margin_used |-> margin_used, notional_value |-> notional_value,
     actual_leverage |-> actual_leverage, trades |-> trades,
     pending_signal |-> pending_signal]

\* ---- recording the equity point (top of the loop body) -----------------

unrealized(s, price) ==
    IF s.position = "long"
    THEN RMul(RSub(price, s.entry_price), s.position_size)
    ELSE RMul(RSub(s.entry_price, price), s.position_size)

\* the margin held by the open position left out of the equity
EquityPoint_WithoutMargin(s, r, t) ==
    [timestamp |-> t,
     equity    |-> IF s.position # "None"
                   THEN RAdd(s.capital, unrealized(s, r.close))
                   ELSE s.capital,
     price     |-> r.close,
     position  |-> s.position,
     unrealized_pnl |-> IF s.position # "None" THEN unrealized(s, r.close) ELSE RZero]

EquityPoint(s, r, t) ==
    [timestamp |-> t,
     equity    |-> IF s.position # "None"
                   THEN RAdd(RAdd(s.capital, s.margin_used), unrealized(s, r.close))
                   ELSE s.capital,
     price     |-> r.close,
     position  |-> s.position,
     unrealized_pnl |-> IF s.position # "None" THEN unrealized(s, r.close) ELSE RZero]

\* if len(data_4h_filtered) < 50 or len(data_1h_filtered) < 50: continue
WarmupSkip_BothShort(d4, d1) == Len(d4) < WarmupRows /\ Len(d1) < WarmupRows

\* a gate that lets a row pass only at exactly 50 one-hour rows
WarmupSkip_UnlessExactCount(d4, d1) == Len(d4) < WarmupRows \/ Len(d1) # WarmupRows

WarmupSkip(d4, d1) == Len(d4) < WarmupRows \/ Len(d1) < WarmupRows

\* ---- filling the pending signal ----------------------------------------

FillGuard(s) == s.pending_signal.type # "None" /\ s.position = "None"

\* the fill priced at the close of the row instead of its open
EntryPrice_AtClose(r) == r.close

\* entry_price = current_open
EntryPrice(r) == r.open

\* the stop placed one ATR away, the multiplier forgotten
StopLossPrice_WithoutMultiplier(side, price, atr) ==
    IF side = "long" THEN RSub(price, atr) ELSE RAdd(price, atr)

\* long: entry - atr * mult; short: entry + atr * mult
StopLossPrice(side, price, atr) ==
    IF side = "long"
    THEN RSub(price, RMul(atr, config.STOP_LOSS_MULTIPLIER))
    ELSE RAdd(price, RMul(atr, config.STOP_LOSS_MULTIPLIER))

TakeProfitPrice(side, price, atr) ==
    IF side = "long"
    THEN RAdd(price, RMul(RMul(atr, config.STOP_LOSS_MULTIPLIER), config.RISK_REWARD_RATIO))
    ELSE RSub(price, RMul(RMul(atr, config.STOP_LOSS_MULTIPLIER), config.RISK_REWARD_RATIO))

\* the pending signal left in place by the fill
ClearPending_Kept(s) == s

\* pending_signal = None
ClearPending(s) == [s EXCEPT !.pending_signal = NoPending]

\* the margin not taken out of the cash at entry
DeductMargin_Skipped(cap, margin) == cap

\* capital -= margin_used
DeductMargin(cap, margin) == RSub(cap, margin)

\* the entry stamped with the time of the signal, not of the fill
FillWith_AtSignalTime(s, side, price, atr, position_details, t) ==
    ClearPending(
      [s EXCEPT !.entry_price     = price,
                !.position        = side,
                !.margin_used     = position_details.margin_used,
                !.actual_leverage = position_details.actual_leverage,
                !.notional_value  = position_details.actual_notional,
                !.position_size   = position_details.position_quantity,
                !.stop_loss       = StopLossPrice(side, price, atr),
                !.take_profit     = TakeProfitPrice(side, price, atr),
                !.capital         = DeductMargin(s.capital, position_details.margin_used),
                !.entry_time      = s.pending_signal.time])

\* the assignments of a fill, given the position details
FillWith(s, side, price, atr, position_details, t) ==
    ClearPending(
      [s EXCEPT !.entry_price     = price,
                !.position        = side,
                !.margin_used     = position_details.margin_used,
                !.actual_leverage = position_details.actual_leverage,
                !.notional_value  = position_details.actual_notional,
                !.position_size   = position_details.position_quantity,
                !.stop_loss       = StopLossPrice(side, price, atr),
                !.take_profit     = TakeProfitPrice(side, price, atr),
                !.capital         = DeductMargin(s.capital, position_details.margin_used),
                !.entry_time      = t])

Fill(s, r, t) ==
    FillWith(s, s.pending_signal.type, EntryPrice(r), s.pending_signal.atr,
             calculate_position_details(s.capital, config.POSITION_SIZE, config.LEVERAGE,
                                        EntryPrice(r)),
             t)

\* ---- checking the exits ------------------------------------------------

\* long: entry - max_loss / size; short: entry + max_loss / size
LiquidationAt(s, max_loss_before_liquidation) ==
    IF s.position = "long"
    THEN RSub(s.entry_price, RDiv(max_loss_before_liquidation, s.position_size))
    ELSE RAdd(s.entry_price, RDiv(max_loss_before_liquidation, s.position_size))

LiquidationPrice_FixedRatio(s) ==
    LiquidationAt(s,
        RSub(s.margin_used, RMul(s.margin_used, config.MAINTENANCE_MARGIN_RATIO)))

\* maintenance_margin = margin_used * rate; max loss = margin_used - that
LiquidationPrice(s) ==
    LiquidationAt(s,
        RSub(s.margin_used,
             RMul(s.margin_used, calculate_maintenance_margin_rate(s.notional_value))))

NoExit == [exit_price |-> NoAtr, exit_reason |-> "None"]

Exit(price, reason) == [exit_price |-> price, exit_reason |-> reason]

\* the stop-loss tested before the liquidation
ExitAt_StopFirst(s, r, liquidation_price) ==
    IF s.position = "long" /\ RLe(r.low, s.stop_loss)
    THEN Exit(s.stop_loss, "stop_loss")
    ELSE IF s.position = "short" /\ RGe(r.high, s.stop_loss)
    THEN Exit(s.stop_loss, "stop_loss")
    ELSE IF s.position = "long" /\ RLe(r.low, liquidation_price)
    THEN Exit(liquidation_price, "liquidation")
    ELSE IF s.position = "short" /\ RGe(r.high, liquidation_price)
    THEN Exit(liquidation_price, "liquidation")
    ELSE IF s.position = "long" /\ RGe(r.high, s.take_profit)
    THEN Exit(s.take_profit, "take_profit")
    ELSE IF s.position = "short" /\ RLe(r.low, s.take_profit)
    THEN Exit(s.take_profit, "take_profit")
    ELSE NoExit

\* the take-profit tested before the stop-loss
ExitAt_TargetFirst(s, r, liquidation_price) ==
    IF s.position = "long" /\ RLe(r.low, liquidation_price)
    THEN Exit(liquidation_price, "liquidation")
    ELSE IF s.position = "short" /\ RGe(r.high, liquidation_price)
    THEN Exit(liquidation_price, "liquidation")
    ELSE IF s.position = "long"
    THEN IF RGe(r.high, s.take_profit) THEN Exit(s.take_profit, "take_profit")
         ELSE IF RLe(r.low, s.stop_loss) THEN Exit(s.stop_loss, "stop_loss")
         ELSE NoExit
    ELSE IF RLe(r.low, s.take_profit) THEN Exit(s.take_profit, "take_profit")
         ELSE IF RGe(r.high, s.stop_loss) THEN Exit(s.stop_loss, "stop_loss")
         ELSE NoExit

\* the stop-loss and the take-profit tested against the close of the row
ExitAt_ByClose(s, r, liquidation_price) ==
    IF s.position = "long" /\ RLe(r.low, liquidation_price)
    THEN Exit(liquidation_price, "liquidation")
    ELSE IF s.position = "short" /\ RGe(r.high, liquidation_price)
    THEN Exit(liquidation_price, "liquidation")
    ELSE IF s.position = "long"
    THEN IF RLe(r.close, s.stop_loss) THEN Exit(s.stop_loss, "stop_loss")
         ELSE IF RGe(r.close, s.take_profit) THEN Exit(s.take_profit, "take_profit")
         ELSE NoExit
    ELSE IF RGe(r.close, s.stop_loss) THEN Exit(s.stop_loss, "stop_loss")
         ELSE IF RLe(r.close, s.take_profit) THEN Exit(s.take_profit, "take_profit")
         ELSE NoExit

\* the liquidation never tested: stop-loss, then take-profit
ExitAt_WithoutLiquidation(s, r, liquidation_price) ==
    IF s.position = "long"
    THEN IF RLe(r.low, s.stop_loss) THEN Exit(s.stop_loss, "stop_loss")
         ELSE IF RGe(r.high, s.take_profit) THEN Exit(s.take_profit, "take_profit")
         ELSE NoExit
    ELSE IF RGe(r.high, s.stop_loss) THEN Exit(s.stop_loss, "stop_loss")
         ELSE IF RLe(r.low, s.take_profit) THEN Exit(s.take_profit, "take_profit")
         ELSE NoExit

\* liquidation first, then stop-loss, then take-profit
\* (exit reasons: liquidation, stop_loss, take_profit)
ExitAt(s, r, liquidation_price) ==
    IF s.position = "long" /\ RLe(r.low, liquidation_price)
    THEN Exit(liquidation_price, "liquidation")
    ELSE IF s.position = "short" /\ RGe(r.high, liquidation_price)
    THEN Exit(liquidation_price, "liquidation")
    ELSE IF s.position = "long"
    THEN IF RLe(r.low, s.stop_loss) THEN Exit(s.stop_loss, "stop_loss")
         ELSE IF RGe(r.high, s.take_profit) THEN Exit(s.take_profit, "take_profit")
         ELSE NoExit
    ELSE IF RGe(r.high, s.stop_loss) THEN Exit(s.stop_loss, "stop_loss")
         ELSE IF RLe(r.low, s.take_profit) THEN Exit(s.take_profit, "take_profit")
         ELSE NoExit

ExitDecision(s, r) == ExitAt(s, r, LiquidationPrice(s))

\* pnl of an exit
ExitPnl(s, x) ==
    IF x.exit_reason = "liquidation" THEN RNeg(s.margin_used)
    ELSE IF s.position = "long"
         THEN RMul(RSub(x.exit_price, s.entry_price), s.position_size)
         ELSE RMul(RSub(s.entry_price, x.exit_price), s.position_size)

\* the pnl alone added to the cash, on every exit
ExitCapital_PnlOnly(s, x, pnl) == RAdd(s.capital, pnl)

\* cash after an exit: unchanged on liquidation, else + margin_used + pnl
ExitCapital(s, x, pnl) ==
    IF x.exit_reason = "liquidation" THEN s.capital
    ELSE RAdd(s.capital, RAdd(s.margin_used, pnl))

\* the two timestamps of the record exchanged
TradeRecord_TimesSwapped(s, exit_time, exit_price, pnl, reason) ==
    [entry_time   |-> exit_time,
     exit_time    |-> s.entry_time,
     side         |-> s.position,
     entry_price  |-> s.entry_price,
     exit_price   |-> exit_price,
     pnl          |-> pnl,
     reason       |-> reason,
     leverage     |-> s.actual_leverage,
     desired_leverage |-> config.LEVERAGE,
     margin_used  |-> s.margin_used,
     notional_value |-> s.notional_value,
     maintenance_margin_rate |-> calculate_maintenance_margin_rate(s.notional_value)]

TradeRecord(s, exit_time, exit_price, pnl, reason) ==
    [entry_time   |-> s.entry_time,
     exit_time    |-> exit_time,
     side         |-> s.position,
     entry_price  |-> s.entry_price,
     exit_price   |-> exit_price,
     pnl          |-> pnl,
     reason       |-> reason,
     leverage     |-> s.actual_leverage,
     desired_leverage |-> config.LEVERAGE,
     margin_used  |-> s.margin_used,
     notional_value |-> s.notional_value,
     maintenance_margin_rate |-> calculate_maintenance_margin_rate(s.notional_value)]

\* the assignments of an exit: cash, the trade record, position = None
CloseWith(s, x, pnl, t) ==
    [s EXCEPT !.capital  = ExitCapital(s, x, pnl),
              !.trades   = Append(s.trades,
                                  TradeRecord(s, t, x.exit_price, pnl, x.exit_reason)),
              !.position = "None"]

ApplyExit(s, x, t) ==
    IF x.exit_reason = "None" THEN s ELSE CloseWith(s, x, ExitPnl(s, x), t)

CheckExit(s, r, t) == ApplyExit(s, ExitDecision(s, r), t)

\* ---- scanning for a new signal -----------------------------------------

\* the scan not held back by an open position
ScanGuard_IgnoresPosition(s) == s.pending_signal.type = "None"

ScanGuard(s) == s.position = "None" /\ s.pending_signal.type = "None"

\* pending_signal = {'type': ..., 'atr': ..., 'time': current_time}
Pending(side, atr, t) == [type |-> side, atr |-> atr, time |-> t]

\* the long signal is preferred to the short signal
ScanWith(s, long_signal, short_signal, t) ==
    IF long_signal.signal
    THEN [s EXCEPT !.pending_signal = Pending("long", long_signal.atr, t)]
    ELSE IF short_signal.signal
    THEN [s EXCEPT !.pending_signal = Pending("short", short_signal.atr, t)]
    ELSE s

Scan(s, d4, d1, t) ==
    ScanWith(s, analyze_long_signal(d4, d1), analyze_short_signal(d4, d1), t)

ScanRecord(s, d4, d1) ==
    [called |-> TRUE, position |-> s.position, pending |-> s.pending_signal.type,
     long |-> analyze_long_signal(d4, d1).signal,
     short |-> analyze_short_signal(d4, d1).signal,
     last_1h |-> iloc(d1, 1).index,
     last_4h |-> iloc(d4, 1).index,
     rows_1h |-> Len(d1),
     rows_4h |-> Len(d4),
     atr_1h |-> iloc(d1, 1).atr,
     long_result |-> analyze_long_signal(d4, d1),
     short_result |-> analyze_short_signal(d4, d1)]

\* ---- data end: forced close and the statistics --------------------------

\* capital += margin_used + pnl, the trade record; the position variable
\* itself is left as it is
ForceCloseWith(s, final_price, final_time, pnl) ==
    [s EXCEPT !.capital = RAdd(s.capital, RAdd(s.margin_used, pnl)),
              !.trades  = Append(s.trades,
                                 TradeRecord(s, final_time, final_price, pnl,
                                             "forced_close"))]

\* the forced close priced at the entry price instead of the last close
ForceClose_AtEntryPrice(s, final_price, final_time) ==
    ForceCloseWith(s, s.entry_price, final_time, RZero)

\* final_price = data_1h['close'].iloc[-1]; final_time = data_1h.index[-1]
ForceClose(s, final_price, final_time) ==
    ForceCloseWith(s, final_price, final_time, unrealized(s, final_price))

RECURSIVE SumPnl(_)
SumPnl(ts) == IF ts = << >> THEN RZero ELSE RAdd(ts[1].pnl, SumPnl(Tail(ts)))

RMax(a, b) == IF RLt(a, b) THEN b ELSE a

RMin(a, b) == IF RLt(b, a) THEN b ELSE a

RECURSIVE MaxPnl(_)
MaxPnl(ts) ==
    IF Len(ts) = 1 THEN ts[1].pnl ELSE RMax(ts[1].pnl, MaxPnl(Tail(ts)))

RECURSIVE MinPnl(_)
MinPnl(ts) ==
    IF Len(ts) = 1 THEN ts[1].pnl ELSE RMin(ts[1].pnl, MinPnl(Tail(ts)))

IsWin(tr) == RGt(tr.pnl, RZero)

IsLoss_Strict(tr) == RLt(tr.pnl, RZero)

IsLoss(tr) == RLe(tr.pnl, RZero)

win_trades(ts) == SelectSeq(ts, IsWin)

lose_trades(ts) == SelectSeq(ts, IsLoss)

MeanPnl(ts) == RDiv(SumPnl(ts), R(Len(ts)))

Percent == 100

TradeStatistics_WinRateAsRatio(cap, ts, wins, losses) ==
    [returned        |-> TRUE,
     initial_capital |-> initial_capital,
     final_capital   |-> cap,
     total_pnl       |-> SumPnl(ts),
     total_return    |-> RMul(RDiv(RSub(cap, initial_capital), initial_capital),
                              R(Percent)),
     total_trades    |-> Len(ts),
     win_rate        |-> Frac(Len(wins), Len(ts)),
     avg_win         |-> IF Len(wins) > 0 THEN MeanPnl(wins) ELSE RZero,
     avg_loss        |-> IF Len(losses) > 0 THEN MeanPnl(losses) ELSE RZero,
     best_trade      |-> MaxPnl(ts),
     worst_trade     |-> MinPnl(ts)]

TradeStatistics(cap, ts, wins, losses) ==
    [returned        |-> TRUE,
     initial_capital |-> initial_capital,
     final_capital   |-> cap,
     total_pnl       |-> SumPnl(ts),
     total_return    |-> RMul(RDiv(RSub(cap, initial_capital), initial_capital),
                              R(Percent)),
     total_trades    |-> Len(ts),
     win_rate        |-> RMul(Frac(Len(wins), Len(ts)), R(Percent)),
     avg_win         |-> IF Len(wins) > 0 THEN MeanPnl(wins) ELSE RZero,
     avg_loss        |-> IF Len(losses) > 0 THEN MeanPnl(losses) ELSE RZero,
     best_trade      |-> MaxPnl(ts),
     worst_trade     |-> MinPnl(ts)]

\* the return computed from the final capital without subtracting the
\* initial capital
Statistics_ReturnAsRatio(cap, ts) ==
    IF ts # << >>
    THEN [TradeStatistics(cap, ts, win_trades(ts), lose_trades(ts))
             EXCEPT !.total_return = RMul(RDiv(cap, initial_capital), R(Percent))]
    ELSE [NoResult EXCEPT !.returned = TRUE, !.final_capital = cap,
                          !.total_return =
                              RMul(RDiv(cap, initial_capital), R(Percent))]

\* if trades: ... else: every figure is 0
Statistics(cap, ts) ==
    IF ts # << >>
    THEN TradeStatistics(cap, ts, win_trades(ts), lose_trades(ts))
    ELSE [NoResult EXCEPT !.returned = TRUE, !.final_capital = cap,
                          !.total_return =
                              RMul(RDiv(RSub(cap, initial_capital), initial_capital),
                                   R(Percent))]

\* ---- the state machine --------------------------------------------------

\* the local variables of execute_backtest before the first row
Start ==
    /\ pc = "loop"
    /\ i = 0
    /\ current_time = FirstHour
    /\ row = NoRow
    /\ capital = initial_capital
    /\ position = "None"
    /\ position_size = RZero
    /\ entry_price = RZero
    /\ stop_loss = RZero
    /\ take_profit = RZero
    /\ entry_time = 0
    /\ margin_used = RZero
    /\ notional_value = RZero
    /\ actual_leverage = 0
    /\ trades = << >>
    /\ equity_curve = << >>
    /\ pending_signal = NoPending
    /\ last_scan = NoScan
    /\ result = NoResult

Init ==
    /\ config = TemplateConfig
    /\ days = 0 /\ batch_results = << >>
    /\ strategy = NoStrategy /\ orders = << >> /\ otoco = NoOtoco
    /\ Start
    /\ \E w \in WarmChoices : warm_1h = w[1] /\ warm_4h = w[2]
    /\ tail_1h \in WarmTails
    /\ tail_4h \in Hist4hValues

SetLocals(s) ==
    /\ capital' = s.capital
    /\ position' = s.position
    /\ position_size' = s.position_size
    /\ entry_price' = s.entry_price
    /\ stop_loss' = s.stop_loss
    /\ take_profit' = s.take_profit
    /\ entry_time' = s.entry_time
    /\ margin_used' = s.margin_used
    /\ notional_value' = s.notional_value
    /\ actual_leverage' = s.actual_leverage
    /\ trades' = s.trades
    /\ pending_signal' = s.pending_signal

\* the equity point recorded only after the warm-up gate has let the row pass
ProcessBar_RecordAfterGate(r, h, atr, h4) ==
    /\ pc = "loop"
    /\ i < MaxBars
    /\ Starts4h(Index1h(i + 1)) \/ h4 = tail_4h
    /\ \E t \in {Index1h(i + 1)} :
       \E d4 \in {data_4h_filtered(t, h4)} :
       \E d1 \in {data_1h_filtered(i + 1, Append(Tail(tail_1h), h), atr)} :
       \E s1 \in {IF FillGuard(Locals) THEN Fill(Locals, r, t) ELSE Locals} :
       \E s2 \in {IF s1.position # "None" THEN CheckExit(s1, r, t) ELSE s1} :
       \E s3 \in {IF ScanGuard(s2) THEN Scan(s2, d4, d1, t) ELSE s2} :
          /\ equity_curve' = IF WarmupSkip(d4, d1) THEN equity_curve
                             ELSE Append(equity_curve, EquityPoint(Locals, r, t))
          /\ SetLocals(IF WarmupSkip(d4, d1) THEN Locals ELSE s3)
          /\ last_scan' = IF ~WarmupSkip(d4, d1) /\ ScanGuard(s2)
                          THEN ScanRecord(s2, d4, d1) ELSE NoScan
          /\ current_time' = t
    /\ i' = i + 1
    /\ row' = r
    /\ tail_1h' = Append(Tail(tail_1h), h)
    /\ tail_4h' = h4
    /\ UNCHANGED << pc, warm_1h, warm_4h, result, config, days,
                    batch_results, strategy, orders, otoco >>

\* one iteration of "for i, (current_time, row) in enumerate(data_1h.iterrows())"
\* on the next row r of data_1h, whose 1h histogram is h and ATR is atr, the
\* latest 4h histogram at that time being h4
ProcessBar(r, h, atr, h4) ==
    /\ pc = "loop"
    /\ i < MaxBars
    /\ Starts4h(Index1h(i + 1)) \/ h4 = tail_4h
    /\ \E t \in {Index1h(i + 1)} :
       \E d4 \in {data_4h_filtered(t, h4)} :
       \E d1 \in {data_1h_filtered(i + 1, Append(Tail(tail_1h), h), atr)} :
       \E s1 \in {IF FillGuard(Locals) THEN Fill(Locals, r, t) ELSE Locals} :
       \E s2 \in {IF s1.position # "None" THEN CheckExit(s1, r, t) ELSE s1} :
       \E s3 \in {IF ScanGuard(s2) THEN Scan(s2, d4, d1, t) ELSE s2} :
          /\ equity_curve' = Append(equity_curve, EquityPoint(Locals, r, t))
          /\ SetLocals(IF WarmupSkip(d4, d1) THEN Locals ELSE s3)
          /\ last_scan' = IF ~WarmupSkip(d4, d1) /\ ScanGuard(s2)
                          THEN ScanRecord(s2, d4, d1) ELSE NoScan
          /\ current_time' = t
    /\ i' = i + 1
    /\ row' = r
    /\ tail_1h' = Append(Tail(tail_1h), h)
    /\ tail_4h' = h4
    /\ UNCHANGED << pc, warm_1h, warm_4h, result, config, days,
                    batch_results, strategy, orders, otoco >>

\* the end of data_1h: forced close of an open position, a pending signal is
\* only reported, the statistics are computed and returned
Finish ==
    /\ pc = "loop"
    /\ i >= 1
    /\ \E sf \in {IF position # "None"
                  THEN ForceClose(Locals, row.close, current_time) ELSE Locals} :
          /\ SetLocals(sf)
          /\ result' = Statistics(sf.capital, sf.trades)
    /\ pc' = "done"
    /\ UNCHANGED << i, current_time, row, equity_curve, warm_1h, warm_4h,
                    tail_1h, tail_4h, last_scan, config, days,
                    batch_results, strategy, orders, otoco >>

Next ==
    \/ \E r \in Candles, h \in HistValues, atr \in AtrValues, h4 \in Hist4hValues :
          ProcessBar(r, h, atr, h4)
    \/ Finish

Spec == Init /\ [][Next]_vars

\* ---- the analyzer alone, on frames of any size and content ----------------

\* the values of a MACD histogram: negative, zero, positive
HistDomain == { -1, 0, 1 }

\* numbers of rows of the 1h frame handed to the analyzer
FrameSizes == { 0, 1, 5, 6, 7, 60 }

\* numbers of rows of the 4h frame handed to the analyzer
SlowFrameSizes == { 0, 60 }

\* the latest 1h histogram values of a frame of n rows, oldest first
AnalyzerTails(n) == [1..Min(n, AnalyzerTailLen) -> HistDomain]

AnalyzerInit ==
    /\ config = TemplateConfig
    /\ days = 0 /\ batch_results = << >>
    /\ strategy = NoStrategy /\ orders = << >> /\ otoco = NoOtoco
    /\ Start
    /\ warm_1h \in FrameSizes
    /\ tail_1h \in AnalyzerTails(warm_1h)
    /\ warm_4h \in SlowFrameSizes
    /\ tail_4h \in HistDomain

\* what the two analyses return on the given frames
AnalysisRecord(d4, d1, atr) ==
    [NoScan EXCEPT !.called = TRUE,
                   !.long = analyze_long_signal(d4, d1).signal,
                   !.short = analyze_short_signal(d4, d1).signal,
                   !.rows_1h = Len(d1),
                   !.rows_4h = Len(d4),
                   !.atr_1h = atr,
                   !.long_result = analyze_long_signal(d4, d1),
                   !.short_result = analyze_short_signal(d4, d1)]

\* analyze_long_signal and analyze_short_signal called on the frames
Analyze(atr) ==
    /\ ~last_scan.called
    /\ last_scan' = AnalysisRecord(data_4h_filtered(current_time, tail_4h),
                                   data_1h_filtered(i, tail_1h, atr), atr)
    /\ UNCHANGED << pc, i, current_time, row, capital, position, position_size,
                    entry_price, stop_loss, take_profit, entry_time, margin_used,
                    notional_value, actual_leverage, trades, equity_curve,
                    pending_signal, warm_1h, warm_4h, tail_1h, tail_4h, result,
                    config, days,
                    batch_results, strategy, orders, otoco >>

AnalyzerNext == \E atr \in AtrValues : Analyze(atr)

AnalyzerSpec == AnalyzerInit /\ [][AnalyzerNext]_vars

\* ---- run_backtest: the two fetches, then the engine ------------------------

\* "return None"
NoneValue == [returned |-> TRUE, value |-> "None"]

\* what get_binance_klines returns: None, or rows
FetchOutcomes == { "None", "rows" }

\* before the fetches no frame is held: no rows, no histogram values
RunInit ==
    /\ config = TemplateConfig
    /\ days = 0 /\ batch_results = << >>
    /\ strategy = NoStrategy /\ orders = << >> /\ otoco = NoOtoco
    /\ pc = "fetch_1h"
    /\ i = 0
    /\ current_time = FirstHour
    /\ row = NoRow
    /\ capital = initial_capital
    /\ position = "None"
    /\ position_size = RZero
    /\ entry_price = RZero
    /\ stop_loss = RZero
    /\ take_profit = RZero
    /\ entry_time = 0
    /\ margin_used = RZero
    /\ notional_value = RZero
    /\ actual_leverage = 0
    /\ trades = << >>
    /\ equity_curve = << >>
    /\ pending_signal = NoPending
    /\ last_scan = NoScan
    /\ result = NoResult
    /\ warm_1h = 0
    /\ warm_4h = 0
    /\ tail_1h = << >>
    /\ tail_4h = 0

\* data_1h_raw = get_binance_klines(symbol, '1h', ...); None ends the run
Fetch1h(outcome, rows, hist_tail) ==
    /\ pc = "fetch_1h"
    /\ IF outcome = "None"
       THEN /\ pc' = "failed"
            /\ result' = NoneValue
            /\ UNCHANGED << warm_1h, tail_1h >>
       ELSE /\ pc' = "fetch_4h"
            /\ warm_1h' = rows
            /\ tail_1h' = hist_tail
            /\ UNCHANGED result
    /\ UNCHANGED << i, current_time, row, capital, position, position_size,
                    entry_price, stop_loss, take_profit, entry_time, margin_used,
                    notional_value, actual_leverage, trades, equity_curve,
                    pending_signal, warm_4h, tail_4h, last_scan, config, days,
                    batch_results, strategy, orders, otoco >>

\* the 4h fetch that goes on to the engine whatever was returned
Fetch4h_Unchecked(outcome, rows, h4) ==
    /\ pc = "fetch_4h"
    /\ pc' = "loop"
    /\ warm_4h' = IF outcome = "None" THEN warm_4h ELSE rows
    /\ tail_4h' = IF outcome = "None" THEN tail_4h ELSE h4
    /\ UNCHANGED << i, current_time, row, capital, position, position_size,
                    entry_price, stop_loss, take_profit, entry_time, margin_used,
                    notional_value, actual_leverage, trades, equity_curve,
                    pending_signal, warm_1h, tail_1h, last_scan, result, config, days,
                    batch_results, strategy, orders, otoco >>

\* data_4h_raw = get_binance_klines(symbol, '4h', ...); None ends the run,
\* otherwise the indicators are computed, the period is cut out and
\* execute_backtest starts
Fetch4h(outcome, rows, h4) ==
    /\ pc = "fetch_4h"
    /\ IF outcome = "None"
       THEN /\ pc' = "failed"
            /\ result' = NoneValue
            /\ UNCHANGED << warm_4h, tail_4h >>
       ELSE /\ pc' = "loop"
            /\ warm_4h' = rows
            /\ tail_4h' = h4
            /\ UNCHANGED result
    /\ UNCHANGED << i, current_time, row, capital, position, position_size,
                    entry_price, stop_loss, take_profit, entry_time, margin_used,
                    notional_value, actual_leverage, trades, equity_curve,
                    pending_signal, warm_1h, tail_1h, last_scan, config, days,
                    batch_results, strategy, orders, otoco >>

RunNext ==
    \/ \E outcome \in FetchOutcomes : Fetch1h(outcome, 60, << -1, -1, -1, -1, -1 >>)
    \/ \E outcome \in FetchOutcomes, h4 \in Hist4hValues : Fetch4h(outcome, 60, h4)
    \/ \E r \in Candles, h \in HistValues, atr \in AtrValues, h4 \in Hist4hValues :
          ProcessBar(r, h, atr, h4)
    \/ Finish

RunSpec == RunInit /\ [][RunNext]_vars

\* ---- a run configured with leverage 0 ---------------------------------------

ZeroLeverageConfig == [TemplateConfig EXCEPT !.LEVERAGE = 0]

ZeroLeverageInit ==
    /\ config = ZeroLeverageConfig
    /\ days = 0 /\ batch_results = << >>
    /\ strategy = NoStrategy /\ orders = << >> /\ otoco = NoOtoco
    /\ Start
    /\ warm_1h = 60
    /\ warm_4h = 60
    /\ tail_1h \in { << -1, -1, -1, -1, -1 >>, << 1, 1, 1, 1, 1 >> }
    /\ tail_4h \in Hist4hValues

ZeroLeverageSpec == ZeroLeverageInit /\ [][Next]_vars

\* ---- a run over rows that may have an open price of 0 ----------------------

\* the rows of the period: the usual ones and a row that opens at 0
ZeroOpenCandles == { Candle(1000, 1010, 990, 1008), Candle(0, 1010, 0, 1008) }

ZeroOpenInit ==
    /\ config = TemplateConfig
    /\ days = 0 /\ batch_results = << >>
    /\ strategy = NoStrategy /\ orders = << >> /\ otoco = NoOtoco
    /\ Start
    /\ warm_1h = 60
    /\ warm_4h = 60
    /\ tail_1h \in { << -1, -1, -1, -1, -1 >>, << 1, 1, 1, 1, 1 >> }
    /\ tail_4h \in Hist4hValues

ZeroOpenNext ==
    \/ \E r \in ZeroOpenCandles, h \in HistValues, atr \in AtrValues,
          h4 \in Hist4hValues :
          ProcessBar(r, h, atr, h4)
    \/ Finish

ZeroOpenSpec == ZeroOpenInit /\ [][ZeroOpenNext]_vars

\* ---- the statistics and the report alone, on any trade list ----------------

\* the pnl of a closed trade: a stop, a draw, two targets
AggPnls == { R(-400), R(0), R(120), R(480) }

\* the trade lists of at most MaxTrades trades
TradeLists ==
    UNION { [1..n -> [pnl : AggPnls]] : n \in 0..MaxTrades }

\* the end of a run that closed the given trades: the cash is the initial
\* capital plus every pnl
AggregatorInit ==
    /\ config = TemplateConfig
    /\ days = 0 /\ batch_results = << >>
    /\ strategy = NoStrategy /\ orders = << >> /\ otoco = NoOtoco
    /\ pc = "loop"
    /\ i = 0
    /\ current_time = FirstHour
    /\ row = NoRow
    /\ trades \in TradeLists
    /\ capital = RAdd(initial_capital, SumPnl(trades))
    /\ position = "None"
    /\ position_size = RZero
    /\ entry_price = RZero
    /\ stop_loss = RZero
    /\ take_profit = RZero
    /\ entry_time = 0
    /\ margin_used = RZero
    /\ notional_value = RZero
    /\ actual_leverage = 0
    /\ equity_curve = << >>
    /\ pending_signal = NoPending
    /\ last_scan = NoScan
    /\ result = NoResult
    /\ warm_1h = 60
    /\ warm_4h = 60
    /\ tail_1h = << -1, -1, -1, -1, -1 >>
    /\ tail_4h = 1

\* what the report of run_backtest computes from the returned results:
\* the two counts and, when both are positive, the profit factor
\* abs(avg_win * win_trades_count / (avg_loss * lose_trades_count))
Report(results, wins, losses) ==
    [returned          |-> TRUE,
     results           |-> results,
     win_trades_count  |-> wins,
     lose_trades_count |-> losses,
     factor_computed   |-> results.total_trades > 0 /\ wins > 0 /\ losses > 0,
     factor_divisor    |-> RMul(results.avg_loss, R(losses))]

\* the statistics at the end of execute_backtest, then the report
Aggregate ==
    /\ pc = "loop"
    /\ pc' = "done"
    /\ result' = Report(Statistics(capital, trades),
                        Len(SelectSeq(trades, IsWin)),
                        Len(SelectSeq(trades, IsLoss)))
    /\ UNCHANGED << i, current_time, row, capital, position, position_size,
                    entry_price, stop_loss, take_profit, entry_time, margin_used,
                    notional_value, actual_leverage, trades, equity_curve,
                    pending_signal, warm_1h, warm_4h, tail_1h, tail_4h,
                    last_scan, config, days,
                    batch_results, strategy, orders, otoco >>

AggregatorNext == Aggregate

AggregatorSpec == AggregatorInit /\ [][AggregatorNext]_vars

\* ---- a run whose desired leverage is above the bracket's maximum -----------

\* settings under which the leverage is cut and the cut moves the position
\* into a lower bracket: margin 450, 450 * 125 = 56250 (max leverage 100),
\* 450 * 100 = 45000 (first bracket)
CappedConfig ==
    [TemplateConfig EXCEPT !.LEVERAGE = 125, !.POSITION_SIZE = Frac(45, 1000)]

CappedInit ==
    /\ config = CappedConfig
    /\ days = 0 /\ batch_results = << >>
    /\ strategy = NoStrategy /\ orders = << >> /\ otoco = NoOtoco
    /\ Start
    /\ warm_1h = 60
    /\ warm_4h = 60
    /\ tail_1h \in { << -1, -1, -1, -1, -1 >>, << 1, 1, 1, 1, 1 >> }
    /\ tail_4h \in Hist4hValues

CappedSpec == CappedInit /\ [][Next]_vars

\* ---- the leverage calculator alone ----------------------------------------

\* capital, position_size_ratio, desired_leverage and entry_price given to
\* calculate_position_details
CalcCapitals ==
    { R(-1000000), R(1000), R(9000), R(10000), R(100000), R(1000000), R(10000000) }

CalcRatios == { Frac(5, 100), Frac(1, 10), Frac(1, 2), R(1) }

CalcLeverages == { 1, 50, 100, 125 }

CalcPrices == { R(100), R(2500) }

CalculatorInit ==
    /\ pc = "loop"
    /\ i = 0
    /\ current_time = FirstHour
    /\ row = NoRow
    /\ capital \in CalcCapitals
    /\ \E ratio \in CalcRatios, lev \in CalcLeverages :
          config = [TemplateConfig EXCEPT !.POSITION_SIZE = ratio, !.LEVERAGE = lev]
    /\ days = 0 /\ batch_results = << >>
    /\ strategy = NoStrategy /\ orders = << >> /\ otoco = NoOtoco
    /\ position \in { "long", "short" }
    /\ position_size = RZero
    /\ entry_price \in CalcPrices
    /\ stop_loss = RZero
    /\ take_profit = RZero
    /\ entry_time = 0
    /\ margin_used = RZero
    /\ notional_value = RZero
    /\ actual_leverage = 0
    /\ trades = << >>
    /\ equity_curve = << >>
    /\ pending_signal = NoPending
    /\ last_scan = NoScan
    /\ result = NoResult
    /\ warm_1h = 0
    /\ warm_4h = 0
    /\ tail_1h = << >>
    /\ tail_4h = 0

\* what the calculator returns for a position, and the liquidation price the
\* exit check of the engine computes for the same position
CalculatorRecord(details, side) ==
    [returned          |-> TRUE,
     details           |-> details,
     asked_bracket     |-> get_leverage_bracket(
                               RMul(details.margin_used, R(details.desired_leverage))),
     liquidation_price |-> calculate_liquidation_price(entry_price, details,
                                                       side = "long"),
     exit_check_price  |-> LiquidationPrice(
                               FillWith(Locals, side, entry_price, RZero,
                                        details, current_time)),
     exit_check_rate   |-> calculate_maintenance_margin_rate(
                               FillWith(Locals, side, entry_price, RZero,
                                        details, current_time).notional_value)]

\* calculate_position_details and calculate_liquidation_price called on the
\* inputs
Calculate ==
    /\ ~result.returned
    /\ result' = CalculatorRecord(
                     calculate_position_details(capital, config.POSITION_SIZE,
                                                config.LEVERAGE, entry_price),
                     position)
    /\ UNCHANGED << pc, i, current_time, row, capital, position, position_size,
                    entry_price, stop_loss, take_profit, entry_time, margin_used,
                    notional_value, actual_leverage, trades, equity_curve,
                    pending_signal, warm_1h, warm_4h, tail_1h, tail_4h,
                    last_scan, config, days,
                    batch_results, strategy, orders, otoco >>

CalculatorNext == Calculate

CalculatorSpec == CalculatorInit /\ [][CalculatorNext]_vars

\* ---- run_batch_backtest: one run of run_backtest after another -------------

\* runs of one batch
MaxRuns == 3

\* one row of the data of a run: the candle, its 1h histogram and ATR, and
\* the latest 4h histogram at that hour
BatchRow(r, hist, h4) == [row |-> r, hist |-> hist, atr |-> R(10), hist_4h |-> h4]

\* the data the provider returns for each entry of backtest_days_list: a
\* flip followed by a rally, a flip followed by a crash, no flip at all
BatchData ==
    << [tail_1h |-> << -1, -1, -1, -1, -1 >>, tail_4h |-> 1,
        rows |-> << BatchRow(Candle(1000, 1010, 990, 1008), 1, 1),
                    BatchRow(Candle(1000, 1040, 995, 1030), 1, 1) >>],
       [tail_1h |-> << -1, -1, -1, -1, -1 >>, tail_4h |-> 1,
        rows |-> << BatchRow(Candle(1000, 1010, 990, 1008), 1, 1),
                    BatchRow(Candle(1000, 1000, 960, 970), 1, -1),
                    BatchRow(Candle(1000, 1018, 982, 1000), -1, -1) >>],
       [tail_1h |-> << 1, 1, 1, 1, 1 >>, tail_4h |-> -1,
        rows |-> << BatchRow(Candle(1000, 1018, 982, 1000), 1, -1),
                    BatchRow(Candle(1000, 1010, 990, 1008), 1, -1),
                    BatchRow(Candle(1000, 1040, 995, 1030), -1, -1) >>] >>

\* before the first entry of backtest_days_list: results = []
BatchInit ==
    /\ config = TemplateConfig
    /\ days = 0 /\ batch_results = << >>
    /\ strategy = NoStrategy /\ orders = << >> /\ otoco = NoOtoco
    /\ pc = "batch"
    /\ i = 0
    /\ current_time = FirstHour
    /\ row = NoRow
    /\ capital = initial_capital
    /\ position = "None"
    /\ position_size = RZero
    /\ entry_price = RZero
    /\ stop_loss = RZero
    /\ take_profit = RZero
    /\ entry_time = 0
    /\ margin_used = RZero
    /\ notional_value = RZero
    /\ actual_leverage = 0
    /\ trades = << >>
    /\ equity_curve = << >>
    /\ pending_signal = NoPending
    /\ last_scan = NoScan
    /\ result = NoResult
    /\ warm_1h = 0
    /\ warm_4h = 0
    /\ tail_1h = << >>
    /\ tail_4h = 0

\* a run that goes on with the cash the run before it ended with
RunBacktest_CapitalKept(d) ==
    /\ pc \in { "batch", "collected" }
    /\ Len(batch_results) < MaxRuns
    /\ days' = d
    /\ pc' = "loop"
    /\ i' = 0
    /\ current_time' = FirstHour
    /\ row' = NoRow
    /\ capital' = IF pc = "batch" THEN initial_capital ELSE capital
    /\ position' = "None"
    /\ position_size' = RZero
    /\ entry_price' = RZero
    /\ stop_loss' = RZero
    /\ take_profit' = RZero
    /\ entry_time' = 0
    /\ margin_used' = RZero
    /\ notional_value' = RZero
    /\ actual_leverage' = 0
    /\ trades' = << >>
    /\ equity_curve' = << >>
    /\ pending_signal' = NoPending
    /\ last_scan' = NoScan
    /\ result' = NoResult
    /\ warm_1h' = 60
    /\ warm_4h' = 60
    /\ tail_1h' = BatchData[d].tail_1h
    /\ tail_4h' = BatchData[d].tail_4h
    /\ UNCHANGED << config, batch_results, strategy, orders, otoco >>

\* "for i, days in enumerate(backtest_days_list, 1)": run_backtest fetches
\* the data of the entry, creates BacktestEngine(initial_capital), and
\* execute_backtest sets its local variables before the first row
RunBacktest(d) ==
    /\ pc \in { "batch", "collected" }
    /\ Len(batch_results) < MaxRuns
    /\ days' = d
    /\ pc' = "loop"
    /\ i' = 0
    /\ current_time' = FirstHour
    /\ row' = NoRow
    /\ capital' = initial_capital
    /\ position' = "None"
    /\ position_size' = RZero
    /\ entry_price' = RZero
    /\ stop_loss' = RZero
    /\ take_profit' = RZero
    /\ entry_time' = 0
    /\ margin_used' = RZero
    /\ notional_value' = RZero
    /\ actual_leverage' = 0
    /\ trades' = << >>
    /\ equity_curve' = << >>
    /\ pending_signal' = NoPending
    /\ last_scan' = NoScan
    /\ result' = NoResult
    /\ warm_1h' = 60
    /\ warm_4h' = 60
    /\ tail_1h' = BatchData[d].tail_1h
    /\ tail_4h' = BatchData[d].tail_4h
    /\ UNCHANGED << config, batch_results, strategy, orders, otoco >>

\* "if result: ... results.append(record)", kept with the trades and the
\* equity curve of the returned dict
Collect ==
    /\ pc = "done"
    /\ pc' = "collected"
    /\ batch_results' = Append(batch_results,
            [days |-> days, statistics |-> result, trades |-> trades,
             equity_curve |-> equity_curve])
    /\ UNCHANGED << i, current_time, row, capital, position, position_size,
                    entry_price, stop_loss, take_profit, entry_time, margin_used,
                    notional_value, actual_leverage, trades, equity_curve,
                    pending_signal, warm_1h, warm_4h, tail_1h, tail_4h,
                    last_scan, result, config, days, strategy, orders, otoco >>

BatchNext ==
    \/ \E d \in 1..Len(BatchData) : RunBacktest(d)
    \/ /\ pc = "loop"
       /\ i < Len(BatchData[days].rows)
       /\ \E b \in { BatchData[days].rows[i + 1] } :
             ProcessBar(b.row, b.hist, b.atr, b.hist_4h)
    \/ /\ pc = "loop"
       /\ i = Len(BatchData[days].rows)
       /\ Finish
    \/ Collect

BatchSpec == BatchInit /\ [][BatchNext]_vars

\* ---- MacdTradingStrategy.run_strategy (strategy/trading_strategy.py) -------

\* hours the monitoring loop lives through
MaxHour == 4

\* "max_retries = 10"
max_retries == 10

\* what check_entry_signals returns on validated data: None, or the side
SignalSides == { "None", "long", "short" }

\* the locals of run_strategy before the monitoring loop; self.data_1h and
\* self.data_4h are None and no order has been sent
StrategyInit ==
    /\ config = TemplateConfig
    /\ days = 0 /\ batch_results = << >>
    /\ \E auto \in BOOLEAN :
          strategy = [NoStrategy EXCEPT !.pc = "wait", !.auto_trade = auto]
    /\ orders = << >>
    /\ otoco = NoOtoco
    /\ pc = "idle"
    /\ i = 0
    /\ current_time = FirstHour
    /\ row = NoRow
    /\ capital = initial_capital
    /\ position = "None"
    /\ position_size = RZero
    /\ entry_price = RZero
    /\ stop_loss = RZero
    /\ take_profit = RZero
    /\ entry_time = 0
    /\ margin_used = RZero
    /\ notional_value = RZero
    /\ actual_leverage = 0
    /\ trades = << >>
    /\ equity_curve = << >>
    /\ pending_signal = NoPending
    /\ last_scan = NoScan
    /\ result = NoResult
    /\ warm_1h = 0
    /\ warm_4h = 0
    /\ tail_1h = << >>
    /\ tail_4h = 0

\* the pass of the monitoring loop at minute 0, second 1 of an hour that has
\* not been checked: the first `failures` attempts fail (update_market_data
\* returns False or the timing validation fails), the next one, if it is
\* among the max_retries attempts, gets validated data and
\* check_entry_signals returns sig.
\*   With a signal the code reads long_analysis['signal'] and
\* short_analysis['signal'], locals that only the signal-free branch
\* assigns (669-670): unbound, the read raises, the outer "except
\* Exception" ends the pass and last_entry_check_hour keeps its value; bound
\* by an earlier signal-free check, both hold signal False, so neither
\* "if auto_trade:" block, the only callers of place_otoco_order, is
\* entered.  No path of the pass sends an order.
HourlyCheck(hour, failures, sig) ==
    /\ strategy.pc = "wait"
    /\ hour > strategy.current_hour
    /\ hour # strategy.last_entry_check_hour
    /\ \E acquired \in { failures < max_retries } :
       \E found \in { IF acquired THEN sig ELSE "None" } :
       \E raised \in { found # "None" /\ ~strategy.long_analysis.bound } :
          strategy' =
             [strategy EXCEPT
                !.current_hour = hour,
                !.retry_count = IF acquired THEN failures + 1 ELSE max_retries,
                !.data_acquired = acquired,
                !.signal = found,
                !.signal_count = IF found # "None" THEN @ + 1 ELSE @,
                !.long_analysis =
                    IF acquired /\ found = "None" THEN [bound |-> TRUE, signal |-> FALSE]
                    ELSE @,
                !.short_analysis =
                    IF acquired /\ found = "None" THEN [bound |-> TRUE, signal |-> FALSE]
                    ELSE @,
                !.last_entry_check_hour = IF raised THEN @ ELSE hour]
    /\ orders' = orders
    /\ UNCHANGED << pc, i, current_time, row, capital, position, position_size,
                    entry_price, stop_loss, take_profit, entry_time, margin_used,
                    notional_value, actual_leverage, trades, equity_curve,
                    pending_signal, warm_1h, warm_4h, tail_1h, tail_4h,
                    last_scan, result, config, days, batch_results, otoco >>

\* "if not infinite_mode and current_time >= end_time: break", or Ctrl+C
StopStrategy ==
    /\ strategy.pc = "wait"
    /\ strategy' = [strategy EXCEPT !.pc = "stopped"]
    /\ UNCHANGED << pc, i, current_time, row, capital, position, position_size,
                    entry_price, stop_loss, take_profit, entry_time, margin_used,
                    notional_value, actual_leverage, trades, equity_curve,
                    pending_signal, warm_1h, warm_4h, tail_1h, tail_4h,
                    last_scan, result, config, days, batch_results, orders,
                    otoco >>

StrategyNext ==
    \/ \E hour \in 1..MaxHour, failures \in 0..max_retries, sig \in SignalSides :
          HourlyCheck(hour, failures, sig)
    \/ StopStrategy

StrategySpec == StrategyInit /\ [][StrategyNext]_vars

\* ---- TradeExecutor.place_otoco_order (trading/trade_executor.py) -----------

\* the longest timeout argument, in seconds
MaxTimeout == 4

\* the timeout argument, in seconds
Timeouts == 0..MaxTimeout

\* order_info['status'] as the exchange reports it
OrderStatuses == { "NEW", "PARTIALLY_FILLED", "FILLED", "CANCELED" }

\* an order as futures_create_order sends it
Order(type, side) == [type |-> type, side |-> side]

\* 'SELL' if side == 'BUY' else 'BUY'
Opposite(side) == IF side = "BUY" THEN "SELL" ELSE "BUY"

ExecutorInit ==
    /\ config = TemplateConfig
    /\ days = 0 /\ batch_results = << >>
    /\ strategy = NoStrategy /\ orders = << >> /\ otoco = NoOtoco
    /\ pc = "idle"
    /\ i = 0
    /\ current_time = FirstHour
    /\ row = NoRow
    /\ capital = initial_capital
    /\ position = "None"
    /\ position_size = RZero
    /\ entry_price = RZero
    /\ stop_loss = RZero
    /\ take_profit = RZero
    /\ entry_time = 0
    /\ margin_used = RZero
    /\ notional_value = RZero
    /\ actual_leverage = 0
    /\ trades = << >>
    /\ equity_curve = << >>
    /\ pending_signal = NoPending
    /\ last_scan = NoScan
    /\ result = NoResult
    /\ warm_1h = 0
    /\ warm_4h = 0
    /\ tail_1h = << >>
    /\ tail_4h = 0

\* the call up to the wait loop: the leverage is set, the main order is
\* sent (accepted is FALSE when the exchange answers with a
\* BinanceAPIException, which is logged and raised again), and the loop
\* condition is evaluated for the first time
PlaceMain(side, timeout, accepted) ==
    /\ otoco.pc = "idle"
    /\ orders' = IF accepted THEN Append(orders, Order("LIMIT", side)) ELSE orders
    /\ otoco' = [otoco EXCEPT
                    !.pc = IF ~accepted THEN "raised"
                           ELSE IF 0 < timeout THEN "wait" ELSE "returned",
                    !.side = side, !.timeout = timeout, !.elapsed = 0]
    /\ UNCHANGED << pc, i, current_time, row, capital, position, position_size,
                    entry_price, stop_loss, take_profit, entry_time, margin_used,
                    notional_value, actual_leverage, trades, equity_curve,
                    pending_signal, warm_1h, warm_4h, tail_1h, tail_4h,
                    last_scan, result, config, days, batch_results, strategy >>

\* a wait loop that leaves on whatever status the exchange reports
Poll_AnyStatus(status) ==
    /\ otoco.pc = "wait"
    /\ otoco' = [otoco EXCEPT !.status = status, !.pc = "filled"]
    /\ UNCHANGED << pc, i, current_time, row, capital, position, position_size,
                    entry_price, stop_loss, take_profit, entry_time, margin_used,
                    notional_value, actual_leverage, trades, equity_curve,
                    pending_signal, warm_1h, warm_4h, tail_1h, tail_4h,
                    last_scan, result, config, days, batch_results, strategy,
                    orders >>

\* one pass of "while time.time() - start < timeout": the order is queried;
\* FILLED leaves the loop by break, any other status sleeps a second, and
\* when the time is up the else branch of the loop returns
Poll(status) ==
    /\ otoco.pc = "wait"
    /\ otoco' = [otoco EXCEPT
                    !.status = status,
                    !.elapsed = IF status = "FILLED" THEN @ ELSE @ + 1,
                    !.pc = IF status = "FILLED" THEN "filled"
                           ELSE IF otoco.elapsed + 1 < otoco.timeout THEN "wait"
                           ELSE "returned"]
    /\ UNCHANGED << pc, i, current_time, row, capital, position, position_size,
                    entry_price, stop_loss, take_profit, entry_time, margin_used,
                    notional_value, actual_leverage, trades, equity_curve,
                    pending_signal, warm_1h, warm_4h, tail_1h, tail_4h,
                    last_scan, result, config, days, batch_results, strategy,
                    orders >>

\* the code after the loop: get_position_info, then the take-profit order,
\* then the stop-loss order; found, tp_accepted and sl_accepted are the
\* answers of the exchange (a refused order raises BinanceAPIException)
Protect(found, tp_accepted, sl_accepted) ==
    /\ otoco.pc = "filled"
    /\ orders' =
          IF ~found THEN orders
          ELSE IF ~tp_accepted THEN orders
          ELSE IF ~sl_accepted
          THEN Append(orders, Order("TAKE_PROFIT_MARKET", Opposite(otoco.side)))
          ELSE Append(Append(orders,
                             Order("TAKE_PROFIT_MARKET", Opposite(otoco.side))),
                      Order("STOP_MARKET", Opposite(otoco.side)))
    /\ otoco' = [otoco EXCEPT
                    !.position = IF found THEN "found" ELSE "None",
                    !.pc = IF ~found THEN "returned"
                           ELSE IF tp_accepted /\ sl_accepted THEN "returned"
                           ELSE "raised"]
    /\ UNCHANGED << pc, i, current_time, row, capital, position, position_size,
                    entry_price, stop_loss, take_profit, entry_time, margin_used,
                    notional_value, actual_leverage, trades, equity_curve,
                    pending_signal, warm_1h, warm_4h, tail_1h, tail_4h,
                    last_scan, result, config, days, batch_results, strategy >>

ExecutorNext ==
    \/ \E side \in { "BUY", "SELL" }, timeout \in Timeouts, accepted \in BOOLEAN :
          PlaceMain(side, timeout, accepted)
    \/ \E status \in OrderStatuses : Poll(status)
    \/ \E found \in BOOLEAN, tp_accepted \in BOOLEAN, sl_accepted \in BOOLEAN :
          Protect(found, tp_accepted, sl_accepted)

ExecutorSpec == ExecutorInit /\ [][ExecutorNext]_vars

\* ---- a run in which one flipped bar is a signal ------------------------------

\* MIN_CONSECUTIVE_BARS = 1: a second signal can follow within the rows of a run
QuickInit ==
    /\ config = [TemplateConfig EXCEPT !.MIN_CONSECUTIVE_BARS = 1]
    /\ days = 0 /\ batch_results = << >>
    /\ strategy = NoStrategy /\ orders = << >> /\ otoco = NoOtoco
    /\ Start
    /\ warm_1h = 60
    /\ warm_4h = 60
    /\ tail_1h \in { << -1, -1, -1, -1, -1 >>, << 1, 1, 1, 1, 1 >> }
    /\ tail_4h \in Hist4hValues

QuickSpec == QuickInit /\ [][Next]_vars

\* ---- a run under other settings: 10% of the cash at 10x, stop at 2 ATR,
\* ---- target at 1:1, prices around 100, ATR 2 ------------------------------

ScenarioConfig ==
    [TemplateConfig EXCEPT !.LEVERAGE             = 10,
                           !.POSITION_SIZE        = Frac(1, 10),
                           !.STOP_LOSS_MULTIPLIER = R(2),
                           !.RISK_REWARD_RATIO    = R(1)]

\* rows of data_1h: quiet, low through the stop with a close above it,
\* high through the target, range touching both, crash
ScenarioCandles ==
    { Candle(100, 102, 98, 101),
      Candle(100, 101, 95, 99),
      Candle(100, 105, 99, 104),
      Candle(100, 104, 96, 100),
      Candle(100, 100, 88, 92) }

ScenarioAtrValues == { R(2) }

\* rows the analysis frames hold before the first row of data_1h: (1h, 4h)
ScenarioWarm == << 60, 60 >>

ScenarioInit ==
    /\ config = ScenarioConfig
    /\ days = 0 /\ batch_results = << >>
    /\ strategy = NoStrategy /\ orders = << >> /\ otoco = NoOtoco
    /\ Start
    /\ warm_1h = ScenarioWarm[1]
    /\ warm_4h = ScenarioWarm[2]
    /\ tail_1h = << -1, -1, -1, -1, -1 >>
    /\ tail_4h \in Hist4hValues

ScenarioNext ==
    \/ \E r \in ScenarioCandles, h \in HistValues, atr \in ScenarioAtrValues,
          h4 \in Hist4hValues :
          ProcessBar(r, h, atr, h4)
    \/ Finish

ScenarioSpec == ScenarioInit /\ [][ScenarioNext]_vars

\* ------------------------------------------------------------------------
\* Properties
\* ------------------------------------------------------------------------

LastTrade(ts) == ts[Len(ts)]

\* a row of data_1h is processed by this step
BarStep == i' = i + 1

\* a position is open when the exits of the row are checked: it was open
\* before the row or is opened by filling the pending signal on this row
OpenAtCheck == position # "None" \/ pending_signal.type # "None"

SideAtCheck == IF position # "None" THEN position ELSE pending_signal.type

\* the cash when the exits are checked
CashAtCheck == IF position # "None" THEN capital ELSE RSub(capital, margin_used')

\* the liquidation price of the position held when the exits are checked
LiqAtCheck ==
    LiquidationPrice([position |-> SideAtCheck, entry_price |-> entry_price',
                      margin_used |-> margin_used', position_size |-> position_size',
                      notional_value |-> notional_value'])

LiqTouched ==
    IF SideAtCheck = "long" THEN RLe(row'.low, LiqAtCheck) ELSE RGe(row'.high, LiqAtCheck)

StopTouched ==
    IF SideAtCheck = "long" THEN RLe(row'.low, stop_loss') ELSE RGe(row'.high, stop_loss')

TargetTouched ==
    IF SideAtCheck = "long" THEN RGe(row'.high, take_profit') ELSE RLe(row'.low, take_profit')

\* the step closes the position: one trade more, for the given reason and price
ClosedBy(reason, price) ==
    /\ Len(trades') = Len(trades) + 1
    /\ SubSeq(trades', 1, Len(trades)) = trades
    /\ LastTrade(trades').reason = reason
    /\ LastTrade(trades').exit_price = price
    /\ LastTrade(trades').side = SideAtCheck
    /\ LastTrade(trades').exit_time = current_time'
    /\ position' = "None"

ExitReasons == { "liquidation", "stop_loss", "take_profit", "forced_close" }

\* C1: after every row at most one position is open, a position and a pending
\* signal never exist together, and the analyzer is only consulted when there
\* is neither an open position nor a pending signal.
C1_OnePositionOrPending ==
    /\ position \in { "None", "long", "short" }
    /\ ~(position # "None" /\ pending_signal.type # "None")
    /\ last_scan.called => last_scan.position = "None" /\ last_scan.pending = "None"

\* a row was processed while a position opened on an earlier row was held,
\* and the analyzer was not consulted on it
C1_Witness ==
    /\ pc = "loop"
    /\ position # "None"
    /\ entry_time < current_time
    /\ ~last_scan.called

\* C2: a signal detected on row t is filled on row t+1: the entry time is the
\* timestamp of row t+1, the entry price is the open of row t+1, the side is
\* the side of the signal.
C2_FillAtNextOpen ==
    [][(pending_signal.type # "None" /\ BarStep) =>
          /\ pending_signal.time = Index1h(i)
          /\ entry_time' = Index1h(i + 1)
          /\ entry_time' = current_time'
          /\ entry_price' = row'.open
          /\ \/ position' = pending_signal.type
             \/ /\ position' = "None"
                /\ Len(trades') = Len(trades) + 1
                /\ LastTrade(trades').side = pending_signal.type
                /\ LastTrade(trades').entry_time = current_time'
                /\ LastTrade(trades').entry_price = row'.open]_vars

\* a position was opened on the row processed last, at its open, which is not
\* the close of the row before
C2_Witness ==
    /\ pc = "loop"
    /\ i >= 2
    /\ position # "None"
    /\ entry_time = current_time
    /\ entry_price = row.open
    /\ equity_curve[i - 1].price # entry_price

\* C3: a pending signal is the signal of the row processed last; processing
\* the next row fills it, so that any signal pending afterwards is a new one
\* of that row; at the end of the data a pending signal produces no trade.
C3_PendingOneBar ==
    [][/\ pending_signal'.type # "None" => pending_signal'.time = current_time'
       /\ (pending_signal.type # "None" /\ BarStep) =>
             /\ entry_time' = current_time'
             /\ pending_signal' # pending_signal
       /\ (pending_signal.type # "None" /\ pc = "loop" /\ pc' = "done") =>
             /\ trades' = trades
             /\ capital' = capital
             /\ position' = "None"]_vars

\* the run ended with a signal pending and without any trade
C3_Witness ==
    /\ pc = "done"
    /\ pending_signal.type # "None"
    /\ pending_signal.time = current_time
    /\ trades = << >>
    /\ result.total_trades = 0

\* C4: when the row touches the liquidation price of the open position, the
\* position is closed by liquidation at that price with pnl = -margin_used,
\* whether or not the stop-loss price is touched too.
C4_LiquidationFirst ==
    [][(BarStep /\ OpenAtCheck /\ LiqTouched) =>
          /\ ClosedBy("liquidation", LiqAtCheck)
          /\ LastTrade(trades').pnl = RNeg(margin_used')]_vars

\* a long was liquidated on the row processed last, whose low is also at or
\* below the stop-loss price
C4_Witness ==
    /\ pc = "loop"
    /\ trades # << >>
    /\ LastTrade(trades).reason = "liquidation"
    /\ LastTrade(trades).side = "long"
    /\ LastTrade(trades).exit_time = current_time
    /\ RLe(row.low, stop_loss)
    /\ RLt(LastTrade(trades).exit_price, stop_loss)

\* C5: a row closes the position at most once; without liquidation, a touched
\* stop-loss closes it at the stop price even if the take-profit is touched
\* too, a take-profit alone closes it at the target, and nothing touched
\* leaves it open.
C5_OneExitByPriority ==
    [][BarStep =>
          /\ Len(trades') <= Len(trades) + 1
          /\ (OpenAtCheck /\ ~LiqTouched /\ StopTouched) =>
                ClosedBy("stop_loss", stop_loss')
          /\ (OpenAtCheck /\ ~LiqTouched /\ ~StopTouched /\ TargetTouched) =>
                ClosedBy("take_profit", take_profit')
          /\ (OpenAtCheck /\ ~LiqTouched /\ ~StopTouched /\ ~TargetTouched) =>
                /\ trades' = trades
                /\ position' = SideAtCheck]_vars

\* a short was stopped out on the row processed last, whose range touches
\* the take-profit price as well
C5_Witness ==
    /\ pc = "loop"
    /\ trades # << >>
    /\ LastTrade(trades).reason = "stop_loss"
    /\ LastTrade(trades).side = "short"
    /\ LastTrade(trades).exit_time = current_time
    /\ LastTrade(trades).exit_price = stop_loss
    /\ RGe(row.high, stop_loss)
    /\ RLe(row.low, take_profit)

\* C6: a liquidation leaves the cash unchanged and records pnl = -margin_used;
\* a stop-loss or take-profit records pnl = (exit - entry) * quantity, with
\* the sign flipped for a short, and adds margin_used + pnl to the cash.
C6_ExitCashFlow ==
    [][(BarStep /\ Len(trades') = Len(trades) + 1) =>
          /\ LastTrade(trades').margin_used = margin_used'
          /\ LastTrade(trades').entry_price = entry_price'
          /\ IF LastTrade(trades').reason = "liquidation"
             THEN /\ capital' = CashAtCheck
                  /\ LastTrade(trades').pnl = RNeg(margin_used')
             ELSE /\ LastTrade(trades').reason \in { "stop_loss", "take_profit" }
                  /\ LastTrade(trades').pnl =
                        IF LastTrade(trades').side = "long"
                        THEN RMul(RSub(LastTrade(trades').exit_price, entry_price'),
                                  position_size')
                        ELSE RMul(RSub(entry_price', LastTrade(trades').exit_price),
                                  position_size')
                  /\ capital' = RAdd(CashAtCheck,
                                     RAdd(margin_used', LastTrade(trades').pnl))]_vars

\* a short reached its take-profit on the row processed last, with a gain
C6_Witness ==
    /\ pc = "loop"
    /\ trades # << >>
    /\ LastTrade(trades).reason = "take_profit"
    /\ LastTrade(trades).side = "short"
    /\ LastTrade(trades).exit_time = current_time
    /\ RGt(LastTrade(trades).pnl, RZero)
    /\ RGt(capital, initial_capital)

\* C7: after every row the cash plus the margin of the open position is the
\* initial capital plus the pnl of the trades closed so far; at the end the
\* final capital less the initial capital is the total pnl.
C7_ValueConserved ==
    /\ pc = "loop" =>
          RAdd(capital, IF position # "None" THEN margin_used ELSE RZero)
             = RAdd(initial_capital, SumPnl(trades))
    /\ pc = "done" =>
          /\ result.returned
          /\ result.final_capital = capital
          /\ result.total_pnl = SumPnl(trades)
          /\ RSub(result.final_capital, result.initial_capital) = result.total_pnl

\* the run ended after a trade whose pnl is not zero
C7_Witness ==
    /\ pc = "done"
    /\ trades # << >>
    /\ result.total_pnl # RZero
    /\ result.final_capital # initial_capital

\* C8 (as amended): every trade has its exit time at or after its entry time
\* and one of the four exit reasons.
C8_ExitNotBeforeEntry ==
    \A k \in 1..Len(trades) :
        /\ trades[k].exit_time >= trades[k].entry_time
        /\ trades[k].reason \in ExitReasons

\* a trade closed on the row on which it was opened
C8_Witness ==
    \E k \in 1..Len(trades) :
        /\ trades[k].exit_time = trades[k].entry_time
        /\ trades[k].reason \in ExitReasons

\* C8 as stated: every trade has its exit time strictly after its entry time
\* and a reason
C8_ExitStrictlyAfterEntry ==
    \A k \in 1..Len(trades) :
        /\ trades[k].exit_time > trades[k].entry_time
        /\ trades[k].reason # "None"

\* C9: no trade is a forced close while rows remain; at the end of the data
\* an open position gives exactly one trade more, the forced close at the
\* close of the last row, with margin_used + pnl added to the cash, and a
\* flat run gives no trade more.
C9_ForcedClose ==
    [][/\ pc' = "loop" => \A k \in 1..Len(trades') : trades'[k].reason # "forced_close"
       /\ (pc = "loop" /\ pc' = "done" /\ position # "None") =>
             /\ trades' = Append(trades, LastTrade(trades'))
             /\ LastTrade(trades').reason = "forced_close"
             /\ LastTrade(trades').exit_price = row.close
             /\ LastTrade(trades').exit_time = current_time
             /\ LastTrade(trades').side = position
             /\ LastTrade(trades').pnl = unrealized(Locals, row.close)
             /\ capital' = RAdd(capital, RAdd(margin_used, LastTrade(trades').pnl))
       /\ (pc = "loop" /\ pc' = "done" /\ position = "None") =>
             /\ trades' = trades
             /\ capital' = capital]_vars

\* the run ended by the forced close of a position held over a row, with a
\* pnl that is not zero
C9_Witness ==
    /\ pc = "done"
    /\ trades # << >>
    /\ LastTrade(trades).reason = "forced_close"
    /\ LastTrade(trades).exit_price = row.close
    /\ LastTrade(trades).entry_time < LastTrade(trades).exit_time
    /\ LastTrade(trades).pnl # RZero

\* C10 as stated: the equity point of a row shows the state at the end of
\* the row: the position then held, and the cash alone when there is none.
C10_EquityPointAtEndOfBar ==
    (pc = "loop" /\ i >= 1) =>
        /\ equity_curve[i].timestamp = current_time
        /\ equity_curve[i].position = position
        /\ position = "None" => equity_curve[i].equity = capital

\* the equity point appended by this step
NewPoint == equity_curve'[Len(equity_curve')]

\* C11: the equity of each point is the cash at the time it is recorded when
\* it reports no position, and cash + margin_used + unrealized pnl when it
\* reports one, the unrealized pnl being (close - entry) * quantity for a
\* long and (entry - close) * quantity for a short at the close of its row.
C11_EquityAccounting ==
    [][BarStep =>
          /\ equity_curve' = Append(equity_curve, NewPoint)
          /\ NewPoint.price = row'.close
          /\ NewPoint.position = position
          /\ NewPoint.position = "None" =>
                /\ NewPoint.equity = capital
                /\ NewPoint.unrealized_pnl = RZero
          /\ NewPoint.position = "long" =>
                /\ NewPoint.unrealized_pnl =
                      RMul(RSub(row'.close, entry_price), position_size)
                /\ NewPoint.equity =
                      RAdd(RAdd(capital, margin_used), NewPoint.unrealized_pnl)
          /\ NewPoint.position = "short" =>
                /\ NewPoint.unrealized_pnl =
                      RMul(RSub(entry_price, row'.close), position_size)
                /\ NewPoint.equity =
                      RAdd(RAdd(capital, margin_used), NewPoint.unrealized_pnl)]_vars

\* the point of the row processed last reports a short with a loss not yet
\* realized
C11_Witness ==
    /\ i >= 1
    /\ equity_curve[i].position = "short"
    /\ RLt(equity_curve[i].unrealized_pnl, RZero)
    /\ RLt(equity_curve[i].equity, initial_capital)

\* C12: the equity curve holds one point for each row processed, in the order
\* of the rows, each stamped with the timestamp of its row.
C12_OnePointPerBar ==
    /\ Len(equity_curve) = i
    /\ \A k \in 1..Len(equity_curve) : equity_curve[k].timestamp = Index1h(k)
    /\ i >= 1 => equity_curve[i].price = row.close

\* three rows or more were processed, the first skipped by the warm-up gate,
\* a later one filled a signal and one closed the position
C12_Witness ==
    /\ i >= 3
    /\ warm_1h + 1 < WarmupRows
    /\ trades # << >>
    /\ Len(equity_curve) = i

\* C13: a run in which no signal fired (no trade, nothing pending at the end)
\* returns zero trades, zero win rate, averages, total pnl and total return,
\* the initial capital as final capital, and an equity curve with one point
\* per row, each with the initial capital as equity.
C13_NoSignalRun ==
    (pc = "done" /\ trades = << >> /\ pending_signal.type = "None") =>
        /\ result.returned
        /\ result.total_trades = 0
        /\ result.win_rate = RZero
        /\ result.avg_win = RZero
        /\ result.avg_loss = RZero
        /\ result.total_pnl = RZero
        /\ result.total_return = RZero
        /\ result.final_capital = initial_capital
        /\ Len(equity_curve) = i
        /\ \A k \in 1..Len(equity_curve) :
              /\ equity_curve[k].equity = initial_capital
              /\ equity_curve[k].position = "None"

\* a run of two rows or more ended without any signal
C13_Witness ==
    /\ pc = "done"
    /\ i >= 2
    /\ trades = << >>
    /\ pending_signal.type = "None"
    /\ result.returned
    /\ result.total_trades = 0

\* the fill of the scenario: cash 10000, a long signal with ATR 2, open 100
ScenarioFill ==
    (BarStep /\ pending_signal.type = "long" /\ capital = R(10000)
       /\ pending_signal.atr = R(2) /\ row'.open = R(100)) =>
        /\ entry_price' = R(100)
        /\ margin_used' = R(1000)
        /\ notional_value' = R(10000)
        /\ position_size' = R(100)
        /\ stop_loss' = R(96)
        /\ take_profit' = R(104)

\* the long of the scenario is open before the row
ScenarioLongOpen ==
    /\ BarStep
    /\ position = "long"
    /\ entry_price = R(100)
    /\ position_size = R(100)
    /\ stop_loss = R(96)

\* the row closes the long at the stop price 96 with pnl -400
ScenarioStopped ==
    /\ ClosedBy("stop_loss", R(96))
    /\ LastTrade(trades').pnl = R(-400)

\* C14 (as amended): the long of the scenario has margin 1000, notional
\* 10000, quantity 100, stop-loss 96 and take-profit 104, and a later row
\* whose low is at or below 96 and above the liquidation price 90.04 closes
\* it as stop_loss with pnl -400, wherever the row closes.
C14_StopInsideLiquidation ==
    [][/\ ScenarioFill
       /\ (ScenarioLongOpen /\ RLe(row'.low, R(96)) /\ RGt(row'.low, Frac(9004, 100)))
             => ScenarioStopped]_vars

\* the long was stopped out on a row after its entry row, with pnl -400, by
\* a row whose close is above the stop price
C14_Witness ==
    /\ pc = "loop"
    /\ trades # << >>
    /\ LastTrade(trades).side = "long"
    /\ LastTrade(trades).reason = "stop_loss"
    /\ LastTrade(trades).pnl = R(-400)
    /\ LastTrade(trades).entry_time < LastTrade(trades).exit_time
    /\ LastTrade(trades).exit_time = current_time
    /\ RLe(row.low, R(96))
    /\ RGt(row.close, R(96))

\* C14 as stated: every later row whose low is at or below 96 closes the
\* long as stop_loss with pnl -400
C14_StopAt96 ==
    [][/\ ScenarioFill
       /\ (ScenarioLongOpen /\ RLe(row'.low, R(96))) => ScenarioStopped]_vars

\* the distance of the stop from the entry: ATR * stop multiplier
StopDistance == RMul(pending_signal.atr, config.STOP_LOSS_MULTIPLIER)

\* the liquidation price the engine computes from the given position data
LiqOf(side, entry, margin, size, notional) ==
    LiquidationPrice([position |-> side, entry_price |-> entry, margin_used |-> margin,
                      position_size |-> size, notional_value |-> notional])

\* C15: the fill sets the stop-loss at entry -/+ ATR * stop multiplier and the
\* take-profit at entry +/- ATR * stop multiplier * risk/reward ratio (long /
\* short); while a position is open no step changes the stop-loss, the
\* take-profit, the entry price, the quantity, the margin or the liquidation
\* price.
C15_StopsFixedAtEntry ==
    [][/\ (BarStep /\ pending_signal.type = "long") =>
             /\ stop_loss' = RSub(entry_price', StopDistance)
             /\ take_profit' =
                   RAdd(entry_price', RMul(StopDistance, config.RISK_REWARD_RATIO))
       /\ (BarStep /\ pending_signal.type = "short") =>
             /\ stop_loss' = RAdd(entry_price', StopDistance)
             /\ take_profit' =
                   RSub(entry_price', RMul(StopDistance, config.RISK_REWARD_RATIO))
       /\ position # "None" =>
             /\ stop_loss' = stop_loss
             /\ take_profit' = take_profit
             /\ entry_price' = entry_price
             /\ position_size' = position_size
             /\ margin_used' = margin_used
             /\ LiqOf(position, entry_price', margin_used', position_size',
                      notional_value')
                   = LiqOf(position, entry_price, margin_used, position_size,
                           notional_value)]_vars

\* a position is still open two rows after the row of its entry
C15_Witness ==
    /\ pc = "loop"
    /\ position # "None"
    /\ entry_time + 2 <= current_time
    /\ stop_loss # entry_price
    /\ take_profit # entry_price

\* C16 as stated: whenever the analyzer is consulted on a row, the latest 1h
\* and 4h rows handed to it open at or before that row, and the four hours
\* of the latest 4h row end no later than the close of that row.
C16_NoLookAhead ==
    last_scan.called =>
        /\ last_scan.last_1h <= current_time
        /\ last_scan.last_4h <= current_time
        /\ last_scan.last_4h + HoursPer4h <= current_time + 1

\* the frames the analyzer was called on
AnalyzedFast == data_1h_filtered(i, tail_1h, last_scan.atr_1h)

AnalyzedSlow == data_4h_filtered(current_time, tail_4h)

\* h(0) is the latest 1h histogram value, h(1) the one before it, and so on
h(k) == iloc(AnalyzedFast, k + 1).macd_histogram

\* the latest 4h histogram value
SlowLatest == iloc(AnalyzedSlow, 1).macd_histogram

\* C17 (amended): analyze_long_signal fires exactly when the 1h frame has at
\* least MIN_CONSECUTIVE_BARS + 2 rows, h[1] <= 0 and h[0] > 0, the values
\* h[1] .. h[MIN_CONSECUTIVE_BARS] (the run counted backward from h[1]) are
\* all strictly negative, and the 4h frame has a latest value that is strictly
\* positive; when it fires the returned atr is the 1h ATR of the latest row.
C17_LongFiresOnRunFromH1 ==
    last_scan.called =>
        /\ last_scan.long_result.signal <=>
              /\ last_scan.rows_1h >= config.MIN_CONSECUTIVE_BARS + 2
              /\ h(1) <= 0
              /\ h(0) > 0
              /\ \A k \in 1..config.MIN_CONSECUTIVE_BARS : h(k) < 0
              /\ last_scan.rows_4h >= 1
              /\ SlowLatest > 0
        /\ last_scan.long_result.signal =>
              last_scan.long_result.atr = last_scan.atr_1h

\* the long signal fires on a frame whose value h[MIN_CONSECUTIVE_BARS + 1]
\* is not negative: the run counted from h[1] is exactly long enough
C17_Witness ==
    /\ last_scan.called
    /\ last_scan.long_result.signal
    /\ last_scan.rows_1h >= config.MIN_CONSECUTIVE_BARS + 2
    /\ h(config.MIN_CONSECUTIVE_BARS + 1) >= 0
    /\ last_scan.long_result.atr = R(10)

\* C17 as stated: analyze_long_signal fires exactly when h[1] <= 0, h[0] > 0,
\* the values h[2] .. h[MIN_CONSECUTIVE_BARS + 1] (the run counted backward
\* from h[2]) are all strictly negative and the latest 4h value is strictly
\* positive.
C17_LongFiresOnRunFromH2 ==
    last_scan.called =>
        (last_scan.long_result.signal <=>
            /\ last_scan.rows_1h >= config.MIN_CONSECUTIVE_BARS + 2
            /\ h(1) <= 0
            /\ h(0) > 0
            /\ \A k \in 2..(config.MIN_CONSECUTIVE_BARS + 1) : h(k) < 0
            /\ last_scan.rows_4h >= 1
            /\ SlowLatest > 0)

\* a frame with every histogram value negated
Negated(frame) ==
    [j \in DOMAIN frame |-> [frame[j] EXCEPT !.macd_histogram = -@]]

\* C18: analyze_short_signal fires on a pair of 1h and 4h frames exactly when
\* analyze_long_signal fires on the two frames with every histogram value
\* negated (and the other way round), with the same atr.
C18_ShortMirrorsLong ==
    last_scan.called =>
        /\ last_scan.short_result.signal
              = analyze_long_signal(Negated(AnalyzedSlow), Negated(AnalyzedFast)).signal
        /\ last_scan.short_result.atr
              = analyze_long_signal(Negated(AnalyzedSlow), Negated(AnalyzedFast)).atr
        /\ last_scan.long_result.signal
              = analyze_short_signal(Negated(AnalyzedSlow), Negated(AnalyzedFast)).signal

\* the short signal fires: a flip to negative after a run of positive 1h
\* values, with a negative latest 4h value
C18_Witness ==
    /\ last_scan.called
    /\ last_scan.short_result.signal
    /\ h(0) < 0
    /\ h(1) > 0
    /\ SlowLatest < 0

\* C19: on a 1h frame of fewer than MIN_CONSECUTIVE_BARS + 2 rows, whatever
\* its values and whatever the 4h frame, analyze_long_signal and
\* analyze_short_signal both return signal = false with the diagnostic
\* "insufficient data"; neither ends in the exception handler.
C19_ShortFrameNoSignal ==
    (last_scan.called /\ last_scan.rows_1h < config.MIN_CONSECUTIVE_BARS + 2) =>
        /\ last_scan.long_result.signal = FALSE
        /\ last_scan.long_result.error = "insufficient data"
        /\ last_scan.short_result.signal = FALSE
        /\ last_scan.short_result.error = "insufficient data"

\* a frame of MIN_CONSECUTIVE_BARS + 1 rows that ends in a flip to positive
\* after MIN_CONSECUTIVE_BARS negative values, with a positive 4h value, has
\* been analysed
C19_Witness ==
    /\ last_scan.called
    /\ last_scan.rows_1h = config.MIN_CONSECUTIVE_BARS + 1
    /\ h(0) > 0
    /\ \A k \in 1..config.MIN_CONSECUTIVE_BARS : h(k) < 0
    /\ last_scan.rows_4h >= 1
    /\ SlowLatest > 0
    /\ ~last_scan.long_result.signal

\* the numbers of 1h and 4h indicator rows stamped at or before the row the
\* step processes
Rows1hAtStep == warm_1h + i'

Rows4hAtStep == warm_4h + Rows4hUpTo(Index1h(i'))

\* C20: a step that processes a row at which fewer than 50 one-hour rows or
\* fewer than 50 four-hour rows of history are stamped at or before the row
\* consults no analyzer, opens no position and stores no pending signal,
\* leaves cash and the trade list alone, appends the row's equity point, and
\* leaves the loop running.
C20_WarmupSkipsBar ==
    [][(BarStep /\ (Rows1hAtStep < WarmupRows \/ Rows4hAtStep < WarmupRows)) =>
          /\ ~last_scan'.called
          /\ position' = position
          /\ pending_signal' = pending_signal
          /\ capital' = capital
          /\ trades' = trades
          /\ Len(equity_curve') = Len(equity_curve) + 1
          /\ NewPoint.timestamp = Index1h(i')
          /\ NewPoint.price = row'.close
          /\ pc' = "loop"]_vars

\* a row was skipped for want of 4h history alone, although the 1h values
\* ended in a flip to positive after four negative values with a positive 4h
\* value
C20_Witness ==
    /\ pc = "loop"
    /\ i >= 1
    /\ warm_1h + i >= WarmupRows
    /\ warm_4h + Rows4hUpTo(current_time) < WarmupRows
    /\ tail_1h = << -1, -1, -1, -1, 1 >>
    /\ tail_4h = 1
    /\ Len(equity_curve) = i
    /\ position = "None"
    /\ pending_signal = NoPending

\* the margin and the notional value at the desired leverage of the position
\* the calculator was asked about
AskedMargin == RMul(capital, config.POSITION_SIZE)

AskedNotional == RMul(AskedMargin, R(config.LEVERAGE))

\* the table row with the given number contains the value
Contains(k, value) ==
    /\ RLe(R(config.BINANCE_LEVERAGE_BRACKETS[k].notional_min), value)
    /\ RLt(value, R(config.BINANCE_LEVERAGE_BRACKETS[k].notional_max))

\* C21: calculate_position_details returns margin = capital * ratio,
\* actual_notional = margin * actual_leverage and quantity = actual_notional /
\* entry price; with b the bracket containing margin * desired leverage, the
\* actual leverage is the desired one and leverage_limited is false when the
\* desired leverage is at most b's max leverage, and it is b's max leverage
\* with leverage_limited true otherwise.
C21_LeverageCappedByBracket ==
    result.returned =>
        /\ result.details.margin_used = AskedMargin
        /\ result.details.actual_notional
              = RMul(AskedMargin, R(result.details.actual_leverage))
        /\ result.details.position_quantity
              = RDiv(result.details.actual_notional, entry_price)
        /\ \A k \in 1..Len(config.BINANCE_LEVERAGE_BRACKETS) :
              Contains(k, AskedNotional) =>
                 IF config.LEVERAGE <= config.BINANCE_LEVERAGE_BRACKETS[k].max_leverage
                 THEN /\ result.details.actual_leverage = config.LEVERAGE
                      /\ result.details.leverage_limited = FALSE
                 ELSE /\ result.details.actual_leverage
                            = config.BINANCE_LEVERAGE_BRACKETS[k].max_leverage
                      /\ result.details.leverage_limited = TRUE

\* a desired leverage of 100 on a margin of 500000 was cut to the 20 of the
\* bracket of 50000000
C21_Witness ==
    /\ result.returned
    /\ AskedMargin = R(500000)
    /\ config.LEVERAGE = 100
    /\ result.details.leverage_limited
    /\ result.details.actual_leverage = 20
    /\ result.details.actual_notional = R(10000000)

\* the capital a trade's position was computed from: margin / POSITION_SIZE
CapitalAtEntry(tr) == RDiv(tr.margin_used, config.POSITION_SIZE)

\* the liquidation price of a trade's position at the given rate
LiquidationAtRate(tr, rate) ==
    IF tr.side = "long"
    THEN RSub(tr.entry_price,
              RDiv(RSub(tr.margin_used, RMul(tr.margin_used, rate)),
                   RDiv(tr.notional_value, tr.entry_price)))
    ELSE RAdd(tr.entry_price,
              RDiv(RSub(tr.margin_used, RMul(tr.margin_used, rate)),
                   RDiv(tr.notional_value, tr.entry_price)))

\* C22: the rate recorded in every trade is the rate of the bracket that
\* contains the trade's notional value after the cut of the leverage, it is
\* the rate calculate_position_details returns for the position, and a
\* liquidation closes the trade at the liquidation price computed with that
\* rate.
C22_RateOfActualNotional ==
    \A n \in 1..Len(trades) :
        /\ \E k \in 1..Len(config.BINANCE_LEVERAGE_BRACKETS) :
              /\ Contains(k, trades[n].notional_value)
              /\ trades[n].maintenance_margin_rate
                    = config.BINANCE_LEVERAGE_BRACKETS[k].maintenance_margin_rate
        /\ trades[n].notional_value
              = RMul(trades[n].margin_used, R(trades[n].leverage))
        /\ trades[n].maintenance_margin_rate
              = calculate_position_details(CapitalAtEntry(trades[n]),
                    config.POSITION_SIZE, config.LEVERAGE,
                    trades[n].entry_price).maintenance_margin_rate
        /\ trades[n].reason = "liquidation" =>
              trades[n].exit_price
                  = LiquidationAtRate(trades[n], trades[n].maintenance_margin_rate)

\* a liquidated trade whose leverage was cut from 125 to 100: the rate used
\* is the 0.4% of the bracket of 45000, not the 0.5% of the bracket of 56250
\* and not the constant 5%
C22_Witness ==
    /\ Len(trades) = 1
    /\ trades[1].reason = "liquidation"
    /\ trades[1].leverage = 100
    /\ trades[1].desired_leverage = 125
    /\ trades[1].maintenance_margin_rate = Frac(4, 1000)
    /\ trades[1].exit_price # LiquidationAtRate(trades[1], Frac(5, 1000))
    /\ trades[1].exit_price # LiquidationAtRate(trades[1], config.MAINTENANCE_MARGIN_RATIO)

\* C23 as stated: for every position calculate_position_details produces,
\* the price the exit check of the engine computes is entry - (margin -
\* margin * mmr) / quantity for a long and entry + (margin - margin * mmr) /
\* quantity for a short, and calculate_liquidation_price returns that price.
C23_LiquidationPricesAgree ==
    result.returned =>
        /\ result.exit_check_price
              = IF position = "long"
                THEN RSub(entry_price,
                          RDiv(RSub(result.details.margin_used,
                                    RMul(result.details.margin_used,
                                         result.details.maintenance_margin_rate)),
                               result.details.position_quantity))
                ELSE RAdd(entry_price,
                          RDiv(RSub(result.details.margin_used,
                                    RMul(result.details.margin_used,
                                         result.details.maintenance_margin_rate)),
                               result.details.position_quantity))
        /\ result.liquidation_price = result.exit_check_price

\* the table of the configuration
Table == config.BINANCE_LEVERAGE_BRACKETS

\* the table is the one shipped; its rows are ascending, each row ends where
\* the next begins, and they cover 0 .. 1,200,000,000
TableInOrder ==
    /\ Table = BINANCE_LEVERAGE_BRACKETS
    /\ Table[1].notional_min = 0
    /\ Table[Len(Table)].notional_max = 1200000000
    /\ \A k \in 1..Len(Table) : Table[k].notional_min < Table[k].notional_max
    /\ \A k \in 1..(Len(Table) - 1) : Table[k].notional_max = Table[k + 1].notional_min

\* the examples of the claim
TableExamples ==
    /\ get_leverage_bracket(R(49999)).max_leverage = 125
    /\ get_leverage_bracket(R(100000)).max_leverage = 100
    /\ get_leverage_bracket(R(1000000)).max_leverage = 75
    /\ get_leverage_bracket(R(5000000)).max_leverage = 50
    /\ get_leverage_bracket(R(200000000)).max_leverage = 5

\* the bracket returned for a value contains the value
ReturnedContains(bracket, value) ==
    /\ RLe(R(bracket.notional_min), value)
    /\ RLt(value, R(bracket.notional_max))

\* C24 (amended): the table is ascending, contiguous and non-overlapping from
\* 0 to 1,200,000,000 and is the same after the lookups as before; for every
\* value with 0 <= value < 1,200,000,000 get_leverage_bracket returns the
\* bracket with notional_min <= value < notional_max, and for any other value
\* it returns the last bracket (max leverage 1), which does not contain it.
C24_BracketLookup ==
    /\ TableInOrder
    /\ TableExamples
    /\ result.returned =>
          /\ IF RLe(RZero, AskedNotional) /\ RLt(AskedNotional, R(1200000000))
             THEN ReturnedContains(result.asked_bracket, AskedNotional)
             ELSE result.asked_bracket = Table[Len(Table)]
          /\ IF RLe(RZero, result.details.actual_notional)
             THEN ReturnedContains(result.details.leverage_bracket,
                                   result.details.actual_notional)
             ELSE result.details.leverage_bracket = Table[Len(Table)]

\* a lookup of 1,250,000,000 returned the last bracket
C24_Witness ==
    /\ result.returned
    /\ AskedNotional = R(1250000000)
    /\ result.asked_bracket.notional_max = 1200000000
    /\ result.details.actual_leverage = 1

\* C24 as stated: the table is in order and unchanged, and for every value
\* get_leverage_bracket returns a bracket with notional_min <= value <
\* notional_max.
C24_EveryValueInItsBracket ==
    /\ TableInOrder
    /\ TableExamples
    /\ result.returned =>
          /\ ReturnedContains(result.asked_bracket, AskedNotional)
          /\ ReturnedContains(result.details.leverage_bracket,
                              result.details.actual_notional)

\* a fetch has returned None: the 1h fetch is over and no 1h rows are held,
\* or both fetches are over and no 4h rows are held
FetchFailed ==
    \/ pc # "fetch_1h" /\ tail_1h = << >>
    \/ pc \notin { "fetch_1h", "fetch_4h" } /\ tail_4h = 0

C26_ZeroLeverageRejected ==
    config.LEVERAGE = 0 =>
        /\ i = 0
        /\ equity_curve = << >>
        /\ trades = << >>

\* C27 as stated: a step that processes a row whose open price is 0 while a
\* signal is pending opens no position and records no trade; it drops the
\* signal and the loop goes on.
C27_ZeroOpenSkipsSignal ==
    [][(BarStep /\ pending_signal # NoPending /\ position = "None"
          /\ row'.open = RZero) =>
          /\ position' = "None"
          /\ position_size' = position_size
          /\ trades' = trades
          /\ capital' = capital
          /\ pc' = "loop"]_vars

\* the numbers of the trades with pnl > 0 and of the trades with pnl <= 0
Winners == { n \in 1..Len(trades) : trades[n].pnl.n > 0 }

Losers == { n \in 1..Len(trades) : trades[n].pnl.n <= 0 }

\* the sum of the pnl of the first n trades whose number is in the set
RECURSIVE PnlSum(_, _)
PnlSum(set, n) ==
    IF n = 0 THEN RZero
    ELSE IF n \in set THEN RAdd(PnlSum(set, n - 1), trades[n].pnl)
    ELSE PnlSum(set, n - 1)

\* the mean pnl of the trades of the set, 0 for the empty set
PnlMean(set) ==
    IF set = {} THEN RZero
    ELSE RDiv(PnlSum(set, Len(trades)), R(Cardinality(set)))

C29_ReturnAndWinRateInPercent ==
    result.returned =>
        /\ RMul(result.results.initial_capital, result.results.total_return)
              = RMul(R(100), RSub(result.results.final_capital,
                                  result.results.initial_capital))
        /\ result.results.final_capital = capital
        /\ RMul(R(Len(trades)), result.results.win_rate)
              = R(100 * Cardinality(Winners))

\* one winner of 480 in two trades: total_return 0.8 (percent), win_rate 50
C29_Witness ==
    /\ result.returned
    /\ Len(trades) = 2
    /\ Cardinality(Winners) = 1
    /\ result.results.final_capital = R(10080)
    /\ result.results.total_return = Frac(8, 10)
    /\ result.results.win_rate = R(50)

\* C29 as stated: total_return is (final_capital - initial_capital) /
\* initial_capital and win_rate is count(pnl > 0) / count(all trades).
C29_ReturnAndWinRateAsRatios ==
    result.returned =>
        /\ RMul(result.results.initial_capital, result.results.total_return)
              = RSub(result.results.final_capital, result.results.initial_capital)
        /\ RMul(R(Len(trades)), result.results.win_rate)
              = R(Cardinality(Winners))

\* C30 as stated: the profit factor is computed only when there is a winner
\* and a loser, and whenever it is computed its divisor avg_loss *
\* lose_trades_count is not 0.
C30_ProfitFactorDivisorNotZero ==
    (result.returned /\ result.factor_computed) =>
        /\ result.win_trades_count > 0
        /\ result.lose_trades_count > 0
        /\ result.factor_divisor # RZero

\* ------------------------------------------------------------------------
\* C31  Runs are independent and deterministic: two runs of one batch on the
\* same data return the same trades, equity curve and statistics, whatever
\* was run before them, and every run starts from the given initial capital
\* with no position, no pending signal and an empty trade list.
\* ------------------------------------------------------------------------

SameData(a, b) == batch_results[a].days = batch_results[b].days

C31_RunsIndependent ==
    /\ \A a, b \in 1..Len(batch_results) :
          SameData(a, b) => batch_results[a] = batch_results[b]
    /\ (pc = "loop" /\ i = 0) =>
          /\ capital = initial_capital
          /\ position = "None"
          /\ pending_signal = NoPending
          /\ trades = << >>
          /\ equity_curve = << >>

\* the same data run first and third, other data with a trade in between
C31_Witness ==
    /\ Len(batch_results) = 3
    /\ SameData(1, 3)
    /\ ~SameData(1, 2)
    /\ batch_results[1].statistics.total_trades > 0
    /\ batch_results[2].statistics.total_trades > 0
    /\ batch_results[1].statistics.final_capital # initial_capital
    /\ batch_results[2].statistics.final_capital # initial_capital

\* ------------------------------------------------------------------------
\* C32  In auto-trade mode an hourly check that detects an entry signal
\* sends an OTOCO order for that side during that check; in alert-only mode
\* no order is ever sent.
\* ------------------------------------------------------------------------

\* an hourly check has just run
Checked == strategy'.current_hour # strategy.current_hour

\* BUY opens a long, SELL a short
OrderSide(side) == IF side = "long" THEN "BUY" ELSE "SELL"

\* C32 as stated; violated by the first check of a run that finds a signal
C32_SignalSendsOrder ==
    [][/\ (Checked /\ strategy.auto_trade /\ strategy'.signal # "None") =>
             /\ Len(orders') > Len(orders)
             /\ orders'[Len(orders) + 1].side = OrderSide(strategy'.signal)
       /\ ~strategy.auto_trade => orders' = orders]_vars

\* ------------------------------------------------------------------------
\* C33  An hourly check keeps retrying the market-data update until data
\* that passes the timing validation has been obtained: no check is marked
\* done for its hour without validated data.
\* ------------------------------------------------------------------------

\* the check of the current hour has been marked done
MarkedDone == strategy.last_entry_check_hour = strategy.current_hour

\* C33 as stated; violated by a check whose max_retries attempts all fail
C33_DoneOnlyWithValidatedData ==
    MarkedDone => strategy.data_acquired

\* ------------------------------------------------------------------------
\* C34  place_otoco_order sends the take-profit and the stop-loss order only
\* after it has seen the main order FILLED; when the main order is not
\* filled in time, or no position is found after the fill, it sends
\* neither; a stop-loss order is always preceded by the take-profit order.
\* ------------------------------------------------------------------------

Protective(o) == o.type \in { "TAKE_PROFIT_MARKET", "STOP_MARKET" }

ProtectiveSent == \E k \in 1..Len(orders) : Protective(orders[k])

C34_ProtectiveOnlyAfterFill ==
    /\ ProtectiveSent =>
          /\ otoco.status = "FILLED"
          /\ otoco.position = "found"
          /\ orders[1].type = "LIMIT"
    /\ (otoco.pc = "returned" /\ otoco.status # "FILLED") => ~ProtectiveSent
    /\ otoco.position = "None" => ~ProtectiveSent
    /\ \A k \in 1..Len(orders) :
          orders[k].type = "STOP_MARKET" =>
             /\ k > 1
             /\ orders[k - 1].type = "TAKE_PROFIT_MARKET"

\* filled on the second query, position found, both orders accepted
C34_Witness ==
    /\ otoco.pc = "returned"
    /\ otoco.elapsed = 1
    /\ Len(orders) = 3
    /\ orders[2].type = "TAKE_PROFIT_MARKET"
    /\ orders[3].type = "STOP_MARKET"

\* ------------------------------------------------------------------------
\* C35  A loss never exceeds the posted margin: every trade has
\* pnl >= -margin_used, only a liquidation reaches -margin_used, so what an
\* exit returns to the cash (margin_used + pnl) is never negative and the
\* cash is strictly positive after every bar.
\* ------------------------------------------------------------------------

ReturnedToCash(tr) == RAdd(tr.margin_used, tr.pnl)

C35_LossBoundedByMargin ==
    /\ \A k \in 1..Len(trades) :
          /\ RGe(trades[k].pnl, RNeg(trades[k].margin_used))
          /\ RGe(ReturnedToCash(trades[k]), RZero)
          /\ (trades[k].pnl = RNeg(trades[k].margin_used))
                <=> (trades[k].reason = "liquidation")
    /\ RGt(capital, RZero)

\* what a stop-loss exit would have lost: the stop distance times the size
LossAtStop(tr, atr) ==
    RMul(RMul(atr, config.STOP_LOSS_MULTIPLIER),
         RDiv(tr.notional_value, tr.entry_price))

\* a liquidated position whose stop-loss lay beyond the liquidation price
C35_Witness ==
    /\ trades # << >>
    /\ trades[1].reason = "liquidation"
    /\ trades[1].pnl = RNeg(trades[1].margin_used)
    /\ RGt(trades[1].margin_used, RZero)
    /\ \A atr \in AtrValues : RGt(LossAtStop(trades[1], atr), trades[1].margin_used)

\* ------------------------------------------------------------------------
\* C36  Trades never overlap and are listed in time order: the entry of a
\* trade is strictly later than the exit of the trade before it (a signal
\* found on the exit bar is filled on the following bar at the earliest),
\* and no trade exits before it was entered.
\* ------------------------------------------------------------------------

C36_TradesInTimeOrder ==
    /\ \A k \in 1..Len(trades) : trades[k].exit_time >= trades[k].entry_time
    /\ \A k \in 1..(Len(trades) - 1) :
          trades[k + 1].entry_time > trades[k].exit_time

\* a signal found on the exit bar of the first trade and filled on the next
C36_Witness ==
    /\ Len(trades) >= 2
    /\ trades[2].entry_time = trades[1].exit_time + 1
    /\ trades[2].side # trades[1].side

\* ------------------------------------------------------------------------
\* C37  The warm-up gate never skips a bar on which a position is open or a
\* signal is pending: once a bar has passed the gate every later bar passes
\* it, so a pending signal is filled on the next bar and an open position
\* has its exits checked on every bar until it is closed.
\* ------------------------------------------------------------------------

\* the row the step processes is held back by the gate
GateSkips == Rows1hAtStep < WarmupRows \/ Rows4hAtStep < WarmupRows

\* the row before it was let through
GatePassedBefore ==
    /\ i >= 1
    /\ warm_1h + i >= WarmupRows
    /\ warm_4h + Rows4hUpTo(current_time) >= WarmupRows

\* the step filled a position on the row it processes
FilledOnRow ==
    \/ position' # "None" /\ entry_time' = Index1h(i')
    \/ /\ Len(trades') = Len(trades) + 1
       /\ LastTrade(trades').entry_time = Index1h(i')

\* the row reaches the stop-loss of the position held before the step
StopReached ==
    \/ position = "long" /\ RLe(row'.low, stop_loss)
    \/ position = "short" /\ RGe(row'.high, stop_loss)

C37_GateKeepsOpenBars ==
    [][BarStep =>
          /\ GatePassedBefore => ~GateSkips
          /\ (position # "None" \/ pending_signal.type # "None") => ~GateSkips
          /\ pending_signal.type # "None" => FilledOnRow
          /\ (position # "None" /\ StopReached) =>
                /\ position' = "None"
                /\ LastTrade(trades').exit_time = Index1h(i')]_vars

\* a run whose first row was held back by the gate and whose later rows
\* found a signal, filled it and closed the position on a stop
C37_Witness ==
    /\ warm_1h + 1 < WarmupRows
    /\ i >= 3
    /\ trades # << >>
    /\ trades[1].entry_time > Index1h(2)
    /\ trades[1].exit_time > trades[1].entry_time
    /\ trades[1].reason \in { "stop_loss", "liquidation" }

\* ------------------------------------------------------------------------
\* C38  On no pair of frames do analyze_long_signal and analyze_short_signal
\* both fire, so the engine's rule "long before short" never drops a short
\* signal: the side it stores is the side of the one analysis that fired.
\* ------------------------------------------------------------------------

\* the side the scan of the engine stores for the analysed frames
StoredSide ==
    ScanWith(Locals, last_scan.long_result, last_scan.short_result,
             current_time).pending_signal.type

C38_NeverBothSides ==
    last_scan.called =>
        /\ ~(last_scan.long_result.signal /\ last_scan.short_result.signal)
        /\ last_scan.short_result.signal => StoredSide = "short"
        /\ last_scan.long_result.signal => StoredSide = "long"
        /\ StoredSide = "None" =>
              /\ ~last_scan.long_result.signal
              /\ ~last_scan.short_result.signal

\* the short analysis fired and its signal is the one stored
C38_Witness ==
    /\ last_scan.called
    /\ last_scan.short_result.signal
    /\ ~last_scan.long_result.signal
    /\ StoredSide = "short"

\* ------------------------------------------------------------------------
\* C39  With MIN_CONSECUTIVE_BARS >= 1 the long analysis never fires when
\* the bar before the flip has a histogram of exactly 0 (h[1] = 0, h[0] > 0),
\* whatever the older values and the 4h frame, and the short analysis never
\* fires when h[1] = 0 and h[0] < 0: the counted run starts at h[1] and needs
\* it strictly of the opposite sign.
\* ------------------------------------------------------------------------

\* the 1h frame has a row before the latest one, and its histogram is 0
FlatBeforeFlip == last_scan.rows_1h >= 2 /\ h(1) = 0

C39_FlatBarBlocksSignal ==
    (last_scan.called /\ config.MIN_CONSECUTIVE_BARS >= 1 /\ FlatBeforeFlip) =>
        /\ h(0) > 0 => ~last_scan.long_result.signal
        /\ h(0) < 0 => ~last_scan.short_result.signal
        /\ (h(0) > 0 /\ last_scan.rows_1h >= config.MIN_CONSECUTIVE_BARS + 2) =>
              last_scan.long_result.stop_reason = "not enough negative"
        /\ (h(0) < 0 /\ last_scan.rows_1h >= config.MIN_CONSECUTIVE_BARS + 2) =>
              last_scan.short_result.stop_reason = "not enough positive"

\* a flip to positive after a flat bar that follows four negative values,
\* with a positive 4h value: everything but h[1] would let the long fire
C39_Witness ==
    /\ last_scan.called
    /\ last_scan.rows_1h >= config.MIN_CONSECUTIVE_BARS + 2
    /\ h(0) > 0
    /\ h(1) = 0
    /\ \A k \in 2..(config.MIN_CONSECUTIVE_BARS + 1) : h(k) < 0
    /\ last_scan.rows_4h >= 1
    /\ SlowLatest > 0
    /\ ~last_scan.long_result.signal

\* the leverage of returned details is at most the max leverage of the stored
\* bracket, and the stored bracket is the table row containing actual_notional
WithinStoredBracket(details) ==
    /\ details.actual_leverage <= details.leverage_bracket.max_leverage
    /\ \A k \in 1..Len(config.BINANCE_LEVERAGE_BRACKETS) :
          Contains(k, details.actual_notional) =>
             details.leverage_bracket = config.BINANCE_LEVERAGE_BRACKETS[k]

\* along the table max leverage never rises and the maintenance margin rate
\* never falls
TableMonotone ==
    \A k \in 1..(Len(config.BINANCE_LEVERAGE_BRACKETS) - 1) :
        /\ config.BINANCE_LEVERAGE_BRACKETS[k].max_leverage
              >= config.BINANCE_LEVERAGE_BRACKETS[k + 1].max_leverage
        /\ RLe(config.BINANCE_LEVERAGE_BRACKETS[k].maintenance_margin_rate,
               config.BINANCE_LEVERAGE_BRACKETS[k + 1].maintenance_margin_rate)

\* C40: for a capital >= 0, a position size ratio in [0, 1] and a desired
\* leverage >= 1, the actual_leverage calculate_position_details returns is
\* at most the max leverage of the bracket that contains the resulting
\* actual_notional, which is the bracket stored in leverage_bracket; along
\* the bracket table the max leverage is non-increasing and the maintenance
\* margin rate non-decreasing. The capital 0 and the ratio 0 are included.
C40_LeverageWithinActualBracket ==
    /\ TableMonotone
    /\ (result.returned /\ RLe(RZero, capital)) =>
          /\ RLe(RZero, config.POSITION_SIZE) /\ RLe(config.POSITION_SIZE, R(1))
          /\ config.LEVERAGE >= 1
          /\ WithinStoredBracket(result.details)
          /\ WithinStoredBracket(
                 calculate_position_details(RZero, config.POSITION_SIZE,
                                            config.LEVERAGE, entry_price))
          /\ WithinStoredBracket(
                 calculate_position_details(capital, RZero,
                                            config.LEVERAGE, entry_price))

\* a desired leverage of 125 on a margin of 1000000 asks for 125000000, whose
\* bracket allows 10; the position of 10000000 that results lies in the
\* bracket that allows 50
C40_Witness ==
    /\ result.returned
    /\ AskedMargin = R(1000000)
    /\ config.LEVERAGE = 125
    /\ result.asked_bracket.max_leverage = 10
    /\ result.details.actual_leverage = 10
    /\ result.details.actual_notional = R(10000000)
    /\ result.details.leverage_bracket.max_leverage = 50

====
